---- MODULE Spec2Model ----
(***************************************************************************)
(* Code Analyzer Agent of codebase-genius (src/agents/code-analyzer).      *)
(*                                                                         *)
(* A syntax tree is a sequence of nodes; node k holds its type, the index  *)
(* of its parent (children are ordered by index), the field name it has in *)
(* its parent, its text and its first and last row (0-based, as            *)
(* start_point[0] and end_point[0]).  Index 0 stands for "no node".        *)
(*                                                                         *)
(* Complexity scores are floats in the code; every score the code can      *)
(* produce is a multiple of 0.5, so a score is kept as its number of       *)
(* halves (1.0 is 2, 0.5 is 1).  A file-level mean is kept as the pair     *)
(* <<total in halves, divisor>>.                                           *)
(*                                                                         *)
(* An operation that can raise returns [raised, val]; a try/except of the  *)
(* code is the place where raised is tested.                               *)
(***************************************************************************)
EXTENDS Integers, Sequences, FiniteSets, TLC

VARIABLES
    tree_sitter_available,  \* TREE_SITTER_AVAILABLE, fixed when the module is imported
    language_parsers,       \* CodeAnalyzerAgent.language_parsers (its keys)
    init_result,            \* the last initialize_parsers call: what failed, what it returned
    calls,                  \* the parse_file calls so far: file, registry entry, outcome
    tree,                   \* the syntax tree handed to the extractors and scorers
    tlang,                  \* the language the tree is analysed as
    out,                    \* what the last extractor or scorer call returned
    source_code,            \* the source text handed to the regex extractors and scorer
    analysis,               \* the last analyze_repository call: the repository, what it returned
    documentation,          \* the last generate_documentation call: its ccg_data, what it returned
    mapping,                \* the last map_repository call: the steps it ran, what it returned
    workflow_manager,       \* WorkflowManager: active_workflows and completed_workflows
    tasks,                  \* the background generation task of each workflow created
    response                \* the answer to the last status, download or delete request

\* the state of the analyzer and DocGenie agents, and of the API
agent_vars == <<tree_sitter_available, language_parsers, init_result, calls, tree, tlang, out,
                source_code, analysis, documentation>>
api_vars == <<workflow_manager, tasks, response>>

vars == <<agent_vars, mapping, api_vars>>

(***************************************************************************)
(* Bounds                                                                  *)
(***************************************************************************)
\* nodes of an enumerated syntax tree
MaxNodes == 3
\* lines of an enumerated source text
MaxLines == 2
\* parse_file calls in one run
MaxCalls == 2
\* workflows created in one run
MaxWorkflows == 2

(***************************************************************************)
(* Python values                                                           *)
(***************************************************************************)
\* index standing for an absent node (child(), child_by_field_name() returning None)
None == 0
\* a None stored where the code otherwise stores a string
PyNone == "<None>"
\* 1.0 in halves
One == 2

Raise == [raised |-> TRUE]
Return(v) == [raised |-> FALSE, val |-> v]

Max(a, b) == IF a >= b THEN a ELSE b

(***************************************************************************)
(* Syntax-tree nodes (the part of tree_sitter.Node the code reads)         *)
(***************************************************************************)
Indices(t) == [k \in 1..Len(t) |-> k]

\* node.children
children(t, n) == SelectSeq(Indices(t), LAMBDA k : t[k].parent = n)

\* node.child(i): None when there is no i-th child
child(t, n, i) ==
    LET c == children(t, n) IN IF i + 1 <= Len(c) THEN c[i + 1] ELSE None

\* node.child_by_field_name(name): None when no child has the field
child_by_field_name(t, n, name) ==
    LET c == SelectSeq(children(t, n), LAMBDA k : t[k].field = name)
    IN  IF c = <<>> THEN None ELSE c[1]

\* the nodes of the subtrees of the sibling nodes given, in the order a recursive
\* descent ("visit the node, then for child in node.children: recurse") visits them
RECURSIVE DescentAll(_, _)
DescentAll(t, nodes) ==
    IF nodes = <<>> THEN <<>>
    ELSE <<Head(nodes)>> \o DescentAll(t, children(t, Head(nodes)))
                        \o DescentAll(t, Tail(nodes))

Descent(t, n) == DescentAll(t, <<n>>)

(***************************************************************************)
(* Complexity Scorer                                                       *)
(***************************************************************************)
PythonWeight(type) ==
    IF type \in {"if_statement", "for_statement", "while_statement", "try_statement"} THEN 2
    ELSE IF type = "elif_clause" THEN 1
    ELSE IF type = "except_clause" THEN 2
    ELSE IF type \in {"and_expression", "or_expression"} THEN 2
    ELSE 0

\* the count without the descent into node.children
RECURSIVE count_complexity_constructs_shallow(_, _)
count_complexity_constructs_shallow(t, nodes) ==
    IF nodes = <<>> THEN 0
    ELSE PythonWeight(t[Head(nodes)].type)
         + count_complexity_constructs_shallow(t, Tail(nodes))

\* count_complexity_constructs on each of the sibling nodes given: what the visits
\* add to complexity
RECURSIVE count_complexity_constructs_all(_, _)
count_complexity_constructs_all(t, nodes) ==
    IF nodes = <<>> THEN 0
    ELSE PythonWeight(t[Head(nodes)].type)
         + count_complexity_constructs_all(t, children(t, Head(nodes)))
         + count_complexity_constructs_all(t, Tail(nodes))

count_complexity_constructs(t, n) == count_complexity_constructs_all(t, <<n>>)

\* the scorer returning 0.0 for a missing body, as calculate_complexity_score does
\* for a missing root
calculate_python_complexity_zero(t, n) ==
    IF n = None THEN 0 ELSE One + count_complexity_constructs(t, n)

calculate_python_complexity(t, n) ==
    IF n = None THEN One ELSE One + count_complexity_constructs(t, n)

JsWeight(type) ==
    IF type \in {"if_statement", "for_statement", "while_statement", "switch_statement"} THEN 2
    ELSE IF type = "case_clause" THEN 1
    ELSE IF type \in {"binary_expression", "logical_expression"} THEN 2
    ELSE 0

RECURSIVE count_js_complexity_all(_, _)
count_js_complexity_all(t, nodes) ==
    IF nodes = <<>> THEN 0
    ELSE JsWeight(t[Head(nodes)].type)
         + count_js_complexity_all(t, children(t, Head(nodes)))
         + count_js_complexity_all(t, Tail(nodes))

count_js_complexity(t, n) == count_js_complexity_all(t, <<n>>)

\* the scorer without its default for a missing body
calculate_js_complexity_unscored(t, n) ==
    IF n = None THEN 0 ELSE One + count_js_complexity(t, n)

calculate_js_complexity(t, n) ==
    IF n = None THEN One ELSE One + count_js_complexity(t, n)

\* what the visit of node n itself adds: <<to total_complexity, to element_count>>
AnalyzeAt(t, n) ==
    IF t[n].type \in {"function_definition", "class_definition"}
    THEN <<calculate_python_complexity(t, child_by_field_name(t, n, "body")), 1>>
    ELSE IF t[n].type = "method_definition" THEN <<0, 1>>
    ELSE <<0, 0>>

\* analyze_node on each of the sibling nodes given
RECURSIVE analyze_node_all(_, _)
analyze_node_all(t, nodes) ==
    IF nodes = <<>> THEN <<0, 0>>
    ELSE LET here  == AnalyzeAt(t, Head(nodes))
             below == analyze_node_all(t, children(t, Head(nodes)))
             rest  == analyze_node_all(t, Tail(nodes))
         IN  <<here[1] + below[1] + rest[1], here[2] + below[2] + rest[2]>>

analyze_node(t, n) == analyze_node_all(t, <<n>>)

\* the file-level score as <<total, divisor>>
calculate_complexity_score(t, root) ==
    IF root = None THEN <<0, 1>>
    ELSE LET a == analyze_node(t, root) IN <<a[1], Max(a[2], 1)>>

(***************************************************************************)
(* Element Extractor                                                       *)
(***************************************************************************)
Text(t, n) == t[n].text

\* [child.text for child in node.children if child.type == "identifier"]
IdentifierTexts(t, n) ==
    LET c == SelectSeq(children(t, n), LAMBDA k : t[k].type = "identifier")
    IN  [k \in 1..Len(c) |-> Text(t, c[k])]

extract_call_name(t, n) ==
    LET func_node == child(t, n, 0) IN
    IF func_node = None THEN Raise
    ELSE IF t[func_node].type = "attribute"
         THEN IF child(t, func_node, 0) = None \/ child(t, func_node, 1) = None
              THEN Raise
              ELSE Return(Text(t, child(t, func_node, 0)) \o "." \o Text(t, child(t, func_node, 1)))
    ELSE IF t[func_node].type = "identifier" THEN Return(Text(t, func_node))
    ELSE Return("")

extract_python_docstring(t, n) ==
    LET body_node == child_by_field_name(t, n, "body") IN
    IF body_node # None /\ children(t, body_node) # <<>>
    THEN LET first_stmt == children(t, body_node)[1] IN
         IF t[first_stmt].type = "expression_statement"
         THEN LET expr == child(t, first_stmt, 0) IN
              IF expr = None THEN Raise
              ELSE IF t[expr].type = "string" THEN Return(Text(t, expr))
              ELSE Return("")
         ELSE Return("")
    ELSE Return("")

\* list(set(names)) without the empty names: each name once.  The order of the
\* list is the set's iteration order; the names are kept in order of first use.
RECURSIVE Dedup(_, _)
Dedup(names, seen) ==
    IF names = <<>> THEN <<>>
    ELSE IF Head(names) \in seen THEN Dedup(Tail(names), seen)
    ELSE <<Head(names)>> \o Dedup(Tail(names), seen \cup {Head(names)})

\* find_calls over the subtree of n
extract_python_dependencies(t, n) ==
    LET call_nodes == SelectSeq(Descent(t, n), LAMBDA k : t[k].type = "call")
        names      == [k \in 1..Len(call_nodes) |-> extract_call_name(t, call_nodes[k])]
    IN  IF \E k \in 1..Len(names) : names[k].raised THEN Raise
        ELSE Return(Dedup([k \in 1..Len(names) |-> names[k].val], {""}))

extract_js_call_name(t, n) ==
    LET callee == child_by_field_name(t, n, "function")
    IN  IF callee # None THEN Text(t, callee) ELSE ""

extract_js_dependencies(t, n) ==
    LET call_nodes == SelectSeq(Descent(t, n), LAMBDA k : t[k].type = "call_expression")
    IN  Dedup([k \in 1..Len(call_nodes) |-> extract_js_call_name(t, call_nodes[k])], {""})

\* the id without the per-file counter
ElementId_uncounted(prefix, element_id, file_path) ==
    prefix \o "_" \o file_path

\* f"{prefix}_{element_id}_{file_path}"
ElementId(prefix, element_id, file_path) ==
    prefix \o "_" \o ToString(element_id) \o "_" \o file_path

NameOf(t, n) ==
    LET name_node == child_by_field_name(t, n, "name")
    IN  IF name_node # None THEN Text(t, name_node) ELSE "anonymous"

ParametersOf(t, n) ==
    LET params_node == child_by_field_name(t, n, "parameters")
    IN  IF params_node # None THEN IdentifierTexts(t, params_node) ELSE <<>>

\* ', '.join(names)
RECURSIVE JoinComma(_)
JoinComma(names) ==
    IF names = <<>> THEN ""
    ELSE IF Len(names) = 1 THEN names[1]
    ELSE names[1] \o ", " \o JoinComma(Tail(names))

Element(id, type, name, t, n, signature, complexity, dependencies, parameters) ==
    [id |-> id, type |-> type, name |-> name,
     start_line |-> t[n].srow + 1, end_line |-> t[n].erow + 1,
     signature |-> signature, complexity |-> complexity,
     dependencies |-> dependencies, parameters |-> parameters]

extract_python_function(t, n, file_path, element_id) ==
    LET complexity == calculate_python_complexity(t, child_by_field_name(t, n, "body"))
        doc        == extract_python_docstring(t, n)
        deps       == extract_python_dependencies(t, n)
    IN  IF doc.raised \/ deps.raised THEN Raise
        ELSE Return(Element(ElementId("func", element_id, file_path), "function",
                            NameOf(t, n), t, n,
                            "def " \o NameOf(t, n) \o "(" \o JoinComma(ParametersOf(t, n)) \o ")",
                            complexity, deps.val, ParametersOf(t, n)))

extract_python_class(t, n, file_path, element_id) ==
    LET bases_node  == child_by_field_name(t, n, "bases")
        inheritance == IF bases_node # None THEN IdentifierTexts(t, bases_node) ELSE <<>>
        complexity  == calculate_python_complexity(t, child_by_field_name(t, n, "body"))
        doc         == extract_python_docstring(t, n)
    IN  IF doc.raised THEN Raise
        ELSE Return(Element(ElementId("class", element_id, file_path), "class",
                            NameOf(t, n), t, n,
                            "class " \o NameOf(t, n) \o "(" \o JoinComma(inheritance) \o ")",
                            complexity, inheritance, <<>>))

extract_python_variable(t, n, file_path, element_id) ==
    LET targets  == child_by_field_name(t, n, "targets")
        var_name == IF targets # None /\ children(t, targets) # <<>>
                       /\ t[children(t, targets)[1]].type = "identifier"
                    THEN Text(t, children(t, targets)[1])
                    ELSE "unknown"
    IN  Return(Element(ElementId("var", element_id, file_path), "variable",
                       var_name, t, n, var_name \o " = ...", One, <<>>, <<>>))

extract_js_function(t, n, file_path, element_id) ==
    LET complexity == calculate_js_complexity(t, child_by_field_name(t, n, "body"))
    IN  Return(Element(ElementId("func", element_id, file_path), "function",
                       NameOf(t, n), t, n,
                       "function " \o NameOf(t, n) \o "(" \o JoinComma(ParametersOf(t, n)) \o ")",
                       complexity, extract_js_dependencies(t, n), ParametersOf(t, n)))

extract_js_class(t, n, file_path, element_id) ==
    Return(Element(ElementId("class", element_id, file_path), "class",
                   NameOf(t, n), t, n, "class " \o NameOf(t, n), One, <<>>, <<>>))

extract_js_variable(t, n, file_path, element_id) ==
    LET declarations == child_by_field_name(t, n, "declarations")
        name_node    == IF declarations # None /\ children(t, declarations) # <<>>
                        THEN child_by_field_name(t, children(t, declarations)[1], "name")
                        ELSE None
        var_name     == IF name_node # None THEN Text(t, name_node) ELSE "unknown"
    IN  Return(Element(ElementId("var", element_id, file_path), "variable",
                       var_name, t, n, "let " \o var_name \o " = ...", One, <<>>, <<>>))

\* the node types traverse_tree turns into an element, per language
IsElementNode(type, language) ==
    \/ language = "python"
       /\ type \in {"function_definition", "class_definition", "assignment"}
    \/ language = "javascript"
       /\ type \in {"function_declaration", "class_declaration", "variable_declaration"}

ExtractElement(t, n, language, file_path, element_counter) ==
    IF language = "python"
    THEN IF t[n].type = "function_definition"
         THEN extract_python_function(t, n, file_path, element_counter)
         ELSE IF t[n].type = "class_definition"
         THEN extract_python_class(t, n, file_path, element_counter)
         ELSE extract_python_variable(t, n, file_path, element_counter)
    ELSE IF t[n].type = "function_declaration"
         THEN extract_js_function(t, n, file_path, element_counter)
         ELSE IF t[n].type = "class_declaration"
         THEN extract_js_class(t, n, file_path, element_counter)
         ELSE extract_js_variable(t, n, file_path, element_counter)

\* traverse_tree over the nodes still to visit; element_counter = Len(elements)
RECURSIVE traverse_tree(_, _, _, _, _)
traverse_tree(t, nodes, language, file_path, elements) ==
    IF nodes = <<>> THEN Return(elements)
    ELSE IF IsElementNode(t[Head(nodes)].type, language)
         THEN LET e == ExtractElement(t, Head(nodes), language, file_path, Len(elements))
              IN  IF e.raised THEN Raise
                  ELSE traverse_tree(t, Tail(nodes), language, file_path,
                                     Append(elements, e.val))
         ELSE traverse_tree(t, Tail(nodes), language, file_path, elements)

\* the extractor with its elements list kept on the agent: a call starts from the
\* list the last successful parse_file call left
extract_code_elements_kept(t, tree_node, language, file_path) ==
    traverse_tree(t, Descent(t, tree_node), language, file_path,
                  IF /\ calls # <<>>
                     /\ ~calls[Len(calls)].outcome.raised
                     /\ calls[Len(calls)].outcome.val.status = "success"
                  THEN calls[Len(calls)].outcome.val.elements
                  ELSE <<>>)

\* elements = [] and element_counter = 0 are locals of the call
extract_code_elements(t, tree_node, language, file_path) ==
    traverse_tree(t, Descent(t, tree_node), language, file_path, <<>>)

(***************************************************************************)
(* Relationship Extractor                                                  *)
(***************************************************************************)
extract_import_module(t, n) ==
    LET first == child(t, n, 0) IN
    IF first = None THEN Raise
    ELSE IF t[first].type \in {"dotted_name", "identifier"} THEN Return(Text(t, first))
    ELSE Return("")

extract_attribute_name(t, n) ==
    LET second == child(t, n, 1) IN
    IF second = None THEN Raise
    ELSE IF t[second].type = "identifier" THEN Return(Text(t, second))
    ELSE Return("")

\* the quoted texts of the files analysed, with what .strip('"').strip("'") leaves
Unquoted(text) ==
    IF text = "'./util'" THEN "./util" ELSE text

extract_js_import_module(t, n) ==
    LET source_node == child_by_field_name(t, n, "source")
    IN  IF source_node # None THEN Unquoted(Text(t, source_node)) ELSE ""

\* a relationship record that carries one confidence for every kind
Relationship_unweighted(type, source, target, t, n, confidence) ==
    [type |-> type, source |-> source, target |-> target,
     line |-> t[n].srow + 1, confidence |-> 5]

Relationship(type, source, target, t, n, confidence) ==
    [type |-> type, source |-> source, target |-> target,
     line |-> t[n].srow + 1, confidence |-> confidence]

\* what the visit of node n itself appends (confidence in tenths)
RelationshipsAt(t, n, language, file_path, current_element) ==
    IF language = "python" /\ t[n].type = "call"
    THEN LET func_name == extract_call_name(t, n) IN
         IF func_name.raised THEN Raise
         ELSE IF func_name.val # ""
              THEN Return(<<Relationship("calls", current_element, func_name.val, t, n, 8)>>)
              ELSE Return(<<>>)
    ELSE IF language = "python" /\ t[n].type = "import_from_statement"
    THEN LET module_name == extract_import_module(t, n) IN
         IF module_name.raised THEN Raise
         ELSE IF module_name.val # ""
              THEN Return(<<Relationship("imports", file_path, module_name.val, t, n, 9)>>)
              ELSE Return(<<>>)
    ELSE IF language = "python" /\ t[n].type = "attribute"
    THEN LET attr_name == extract_attribute_name(t, n) IN
         IF attr_name.raised THEN Raise
         ELSE IF attr_name.val # "" /\ current_element # PyNone
              THEN Return(<<Relationship("uses", current_element, attr_name.val, t, n, 7)>>)
              ELSE Return(<<>>)
    ELSE IF language = "javascript" /\ t[n].type = "call_expression"
    THEN LET func_name == extract_js_call_name(t, n) IN
         IF func_name # ""
         THEN Return(<<Relationship("calls", current_element, func_name, t, n, 8)>>)
         ELSE Return(<<>>)
    ELSE IF language = "javascript" /\ t[n].type = "import_statement"
    THEN LET module_name == extract_js_import_module(t, n) IN
         IF module_name # ""
         THEN Return(<<Relationship("imports", file_path, module_name, t, n, 9)>>)
         ELSE Return(<<>>)
    ELSE Return(<<>>)

\* the current_element that the visit of node n hands to the visits of its children
ChildElement(t, n, language, file_path, current_element) == current_element

\* traverse_for_relationships on each of the sibling nodes given
RECURSIVE traverse_for_relationships_all(_, _, _, _, _)
traverse_for_relationships_all(t, nodes, language, file_path, current_element) ==
    IF nodes = <<>> THEN Return(<<>>)
    ELSE LET n     == Head(nodes)
             here  == RelationshipsAt(t, n, language, file_path, current_element)
             below == traverse_for_relationships_all(t, children(t, n), language, file_path,
                          ChildElement(t, n, language, file_path, current_element))
             rest  == traverse_for_relationships_all(t, Tail(nodes), language, file_path,
                          current_element)
         IN  IF here.raised \/ below.raised \/ rest.raised THEN Raise
             ELSE Return(here.val \o below.val \o rest.val)

traverse_for_relationships(t, n, language, file_path, current_element) ==
    traverse_for_relationships_all(t, <<n>>, language, file_path, current_element)

extract_relationships(t, tree_node, language, file_path) ==
    traverse_for_relationships(t, tree_node, language, file_path, PyNone)

(***************************************************************************)
(* Regex Fallback Extractor                                                *)
(*                                                                         *)
(* A source text is a sequence of tokens: NL is one newline, " " is one    *)
(* blank, a punctuation token is that character, and every other token is  *)
(* a maximal run of word characters (two word tokens are never adjacent).  *)
(* A pattern of the code is a regular expression over tokens: tok (a token *)
(* in, or not in, a set), word (\w+), cat, alt, opt and the greedy star.   *)
(* Ends(re, text, i) lists the positions where a match starting at token i *)
(* can end, in the order a backtracking matcher tries them.                *)
(***************************************************************************)
NL == "\n"
Blank == {" ", NL}
Quotes == {"'", "\""}
Punctuation == {"(", ")", ":", "{", "}", ",", ".", "#", "=", "*", "/"} \cup Quotes
IsWord(tok) == tok \notin Blank \cup Punctuation

In(S) == [op |-> "tok", in |-> TRUE, set |-> S]
NotIn(S) == [op |-> "tok", in |-> FALSE, set |-> S]
Word == [op |-> "word"]
Cat(a, b) == [op |-> "cat", a |-> a, b |-> b]
Alt(a, b) == [op |-> "alt", a |-> a, b |-> b]
Opt(a) == [op |-> "opt", a |-> a]
Star(a) == [op |-> "star", a |-> a]
Plus(a) == Cat(a, Star(a))
RECURSIVE CatAll(_)
CatAll(res) == IF Len(res) = 1 THEN res[1] ELSE Cat(Head(res), CatAll(Tail(res)))

RECURSIVE Ends(_, _, _)
\* the ends of the matches of re that start at each of the positions, in turn
RECURSIVE EndsFrom(_, _, _)
EndsFrom(re, text, positions) ==
    IF positions = <<>> THEN <<>>
    ELSE Ends(re, text, Head(positions)) \o EndsFrom(re, text, Tail(positions))

Ends(re, text, i) ==
    CASE re.op = "tok" ->
            IF i <= Len(text) /\ ((text[i] \in re.set) = re.in) THEN <<i + 1>> ELSE <<>>
      [] re.op = "word" ->
            IF i <= Len(text) /\ IsWord(text[i]) THEN <<i + 1>> ELSE <<>>
      [] re.op = "cat" ->
            EndsFrom(re.b, text, Ends(re.a, text, i))
      [] re.op = "alt" -> Ends(re.a, text, i) \o Ends(re.b, text, i)
      [] re.op = "opt" -> Ends(re.a, text, i) \o <<i>>
      [] re.op = "star" ->
            EndsFrom(re, text, SelectSeq(Ends(re.a, text, i), LAMBDA e : e > i)) \o <<i>>

\* re.finditer: the matches <<start, end>> (end exclusive) from position i on, left
\* to right and not overlapping
RECURSIVE finditer(_, _, _)
finditer(re, text, i) ==
    IF i > Len(text) THEN <<>>
    ELSE LET e == Ends(re, text, i)
         IN  IF e = <<>> THEN finditer(re, text, i + 1)
             ELSE <<<<i, e[1]>>>> \o finditer(re, text, Max(e[1], i + 1))

\* len(re.findall(r'\bkw\b', source_code))
CountWord(text, kw) == Len(SelectSeq(text, LAMBDA tok : tok = kw))

RECURSIVE Join(_)
Join(toks) == IF toks = <<>> THEN "" ELSE Head(toks) \o Join(Tail(toks))

\* the line number counted from 0
LineOf_from_zero(text, start) == CountWord(SubSeq(text, 1, start - 1), NL)

\* source_code[:match.start()].count('\n') + 1
LineOf(text, start) == CountWord(SubSeq(text, 1, start - 1), NL) + 1

\* len(source_code.splitlines())
LinesOfCode(text) ==
    CountWord(text, NL) + (IF text # <<>> /\ text[Len(text)] # NL THEN 1 ELSE 0)

RECURSIVE rstrip(_, _)
rstrip(toks, chars) ==
    IF toks # <<>> /\ toks[Len(toks)] \in chars
    THEN rstrip(SubSeq(toks, 1, Len(toks) - 1), chars) ELSE toks

RECURSIVE lstrip(_, _)
lstrip(toks, chars) ==
    IF toks # <<>> /\ Head(toks) \in chars THEN lstrip(Tail(toks), chars) ELSE toks

\* the first word after the keyword that opens the match: match.group(1)
FirstName(text, m) == lstrip(SubSeq(text, m[1] + 1, m[2] - 1), Blank)[1]

Spaces == Plus(In(Blank))
MaybeSpaces == Star(In(Blank))

\* r'def\s+(\w+)\s*\([^)]*\):'
py_func_pattern ==
    CatAll(<<In({"def"}), Spaces, Word, MaybeSpaces, In({"("}), Star(NotIn({")"})),
             In({")"}), In({":"})>>)
\* r'class\s+(\w+)\s*(\([^)]*\))?:'
py_class_pattern ==
    CatAll(<<In({"class"}), Spaces, Word, MaybeSpaces,
             Opt(CatAll(<<In({"("}), Star(NotIn({")"})), In({")"})>>)), In({":"})>>)
\* r'function\s+(\w+)\s*\([^)]*\)\s*{'
js_func_pattern ==
    CatAll(<<In({"function"}), Spaces, Word, MaybeSpaces, In({"("}), Star(NotIn({")"})),
             In({")"}), MaybeSpaces, In({"{"})>>)
\* r'class\s+(\w+)\s*{'
js_class_pattern == CatAll(<<In({"class"}), Spaces, Word, MaybeSpaces, In({"{"})>>)

RegexElement(prefix, type, text, m, closing, file_path, elements) ==
    [id |-> ElementId(prefix, Len(elements), file_path), type |-> type,
     name |-> FirstName(text, m),
     start_line |-> LineOf(text, m[1]), end_line |-> 0,
     signature |-> Join(rstrip(SubSeq(text, m[1], m[2] - 1), {closing})),
     complexity |-> One, dependencies |-> <<>>, parameters |-> <<>>]

\* one "for match in re.finditer(...): elements.append(...)" loop
RECURSIVE AppendMatches(_, _, _, _, _, _, _)
AppendMatches(prefix, type, text, ms, closing, file_path, elements) ==
    IF ms = <<>> THEN elements
    ELSE AppendMatches(prefix, type, text, Tail(ms), closing, file_path,
             Append(elements,
                    RegexElement(prefix, type, text, Head(ms), closing, file_path, elements)))

extract_elements_with_regex(text, language, file_path) ==
    IF language = "python"
    THEN AppendMatches("class", "class", text, finditer(py_class_pattern, text, 1), ":",
             file_path,
             AppendMatches("func", "function", text, finditer(py_func_pattern, text, 1), ":",
                 file_path, <<>>))
    ELSE IF language = "javascript"
    THEN AppendMatches("class", "class", text, finditer(js_class_pattern, text, 1), "{",
             file_path,
             AppendMatches("func", "function", text, finditer(js_func_pattern, text, 1), "{",
                 file_path, <<>>))
    ELSE <<>>

\* r'(?:from\s+(\S+)\s+)?import\s+([^\n#]+)'
py_import_pattern ==
    CatAll(<<Opt(CatAll(<<In({"from"}), Spaces, Plus(NotIn(Blank)), Spaces>>)),
             In({"import"}), Spaces, Plus(NotIn({NL, "#"}))>>)
\* r"import\s+(?:{[^}]+}|[\w*\s,]+)\s+from\s+['\"]([^'\"]+)['\"]"
js_import_pattern ==
    CatAll(<<In({"import"}), Spaces,
             Alt(CatAll(<<In({"{"}), Plus(NotIn({"}"})), In({"}"})>>),
                 Plus(Alt(Word, In(Blank \cup {"*", ","})))),
             Spaces, In({"from"}), Spaces,
             In(Quotes), Plus(NotIn(Quotes)), In(Quotes)>>)

\* match.group(1) or match.group(2), stripped, of a Python import match
PyImportTarget(text, m) ==
    LET toks == SubSeq(text, m[1], m[2] - 1) IN
    IF toks[1] = "from"
    THEN LET rest == lstrip(Tail(toks), Blank)
             len  == CHOOSE n \in 1..Len(rest) :
                        /\ \A k \in 1..n : rest[k] \notin Blank
                        /\ rest[n + 1] \in Blank
         IN  Join(SubSeq(rest, 1, len))
    ELSE Join(rstrip(lstrip(Tail(toks), Blank), Blank))

\* match.group(1) of a JavaScript import match: the text between the quotes
JsImportTarget(text, m) ==
    LET toks  == SubSeq(text, m[1], m[2] - 2)
        open  == CHOOSE n \in 1..Len(toks) :
                    toks[n] \in Quotes /\ \A k \in (n + 1)..Len(toks) : toks[k] \notin Quotes
    IN  Join(SubSeq(toks, open + 1, Len(toks)))

RegexImport(text, m, target, file_path) ==
    [type |-> "imports", source |-> file_path, target |-> target,
     line |-> LineOf(text, m[1]), confidence |-> 9]

extract_relationships_with_regex(text, language, file_path) ==
    IF language = "python"
    THEN LET ms == finditer(py_import_pattern, text, 1)
         IN  [k \in 1..Len(ms) |-> RegexImport(text, ms[k], PyImportTarget(text, ms[k]), file_path)]
    ELSE IF language = "javascript"
    THEN LET ms == finditer(js_import_pattern, text, 1)
         IN  [k \in 1..Len(ms) |-> RegexImport(text, ms[k], JsImportTarget(text, ms[k]), file_path)]
    ELSE <<>>

\* a scorer that counts the control-flow words only
calculate_complexity_with_regex_control_only(text) ==
    One + 2 * (CountWord(text, "if") + CountWord(text, "for") + CountWord(text, "while")
               + CountWord(text, "try"))

\* the regex-mode score of a text, in halves
calculate_complexity_with_regex(text) ==
    One + 2 * (CountWord(text, "if") + CountWord(text, "for") + CountWord(text, "while")
               + CountWord(text, "try"))
        + 2 * (CountWord(text, "and") + CountWord(text, "or"))

(***************************************************************************)
(* parse_file                                                              *)
(*                                                                         *)
(* A file is [path, language, readable, text, parse_raises, tree]:         *)
(* language is what the caller detected from the extension, readable says  *)
(* whether open() succeeds, text is its content, parse_raises says whether *)
(* the structured parser throws on it, and tree is the syntax tree the     *)
(* structured parser returns for it otherwise.                             *)
(***************************************************************************)
\* FileAnalysis with the two counts taken from the wrong lists
FileAnalysis_swapped(f, language, elements, relationships, complexity_score) ==
    [file_path |-> f.path, language |-> language, parsing_status |-> "success",
     error_message |-> "", elements_found |-> Len(relationships),
     relationships_found |-> Len(elements),
     complexity_score |-> complexity_score, lines_of_code |-> LinesOfCode(f.text)]

FileAnalysis(f, language, elements, relationships, complexity_score) ==
    [file_path |-> f.path, language |-> language, parsing_status |-> "success",
     error_message |-> "", elements_found |-> Len(elements),
     relationships_found |-> Len(relationships),
     complexity_score |-> complexity_score, lines_of_code |-> LinesOfCode(f.text)]

Success(f, language, file_analysis, elements, relationships) ==
    [status |-> "success", file_path |-> f.path, language |-> language,
     file_analysis |-> file_analysis, elements |-> elements,
     relationships |-> relationships, complexity_score |-> file_analysis.complexity_score]

Error(f, message) == [status |-> "error", file_path |-> f.path, error |-> message]

\* the try block of _parse_with_tree_sitter: self.language_parsers[language] raises
\* for a language without a parser, and parser.parse() or sexp() may raise
tree_sitter_body(f, language, parsers) ==
    IF language \notin parsers \/ f.parse_raises THEN Raise
    ELSE LET elements      == extract_code_elements(f.tree, 1, language, f.path)
             relationships == extract_relationships(f.tree, 1, language, f.path)
         IN  IF elements.raised \/ relationships.raised THEN Raise
             ELSE Return(Success(f, language,
                      FileAnalysis(f, language, elements.val, relationships.val,
                                   calculate_complexity_score(f.tree, 1)),
                      elements.val, relationships.val))

parse_with_tree_sitter(f, language, parsers) ==
    LET r == tree_sitter_body(f, language, parsers)
    IN  IF r.raised THEN Return(Error(f, "Tree-sitter parsing failed")) ELSE r

\* the try block of _parse_with_fallback; nothing in it raises on a text
fallback_body(f, language) ==
    LET elements      == extract_elements_with_regex(f.text, language, f.path)
        relationships == extract_relationships_with_regex(f.text, language, f.path)
    IN  Return(Success(f, language,
               FileAnalysis(f, language, elements, relationships,
                            <<calculate_complexity_with_regex(f.text), 1>>),
               elements, relationships))

parse_with_fallback(f, language) ==
    LET r == fallback_body(f, language)
    IN  IF r.raised THEN Return(Error(f, "Fallback parsing failed")) ELSE r

\* the condition without "language in self.language_parsers"
UsesTreeSitter_any(available, parsers, language) == available

\* the condition under which parse_file takes the structured parser
UsesTreeSitter(available, parsers, language) == available /\ language \in parsers

\* the try block of parse_file
parse_file_body(f, language, available, parsers) ==
    IF ~f.readable THEN Raise
    ELSE IF UsesTreeSitter(available, parsers, language)
         THEN parse_with_tree_sitter(f, language, parsers)
         ELSE parse_with_fallback(f, language)

\* parse_file without its try/except
parse_file_unguarded(f, language, available, parsers) ==
    parse_file_body(f, language, available, parsers)

parse_file(f, language, available, parsers) ==
    LET r == parse_file_body(f, language, available, parsers)
    IN  IF r.raised THEN Return(Error(f, "No such file or directory")) ELSE r

(***************************************************************************)
(* initialize_parsers                                                      *)
(***************************************************************************)
\* the languages in the order initialize_parsers attempts them
LanguageOrder == <<"python", "javascript", "typescript", "java", "cpp", "c">>
Languages == {LanguageOrder[k] : k \in 1..Len(LanguageOrder)}

\* one "try: language_parsers[lang] = Parser(Language(...)) except Exception: print"
\* block, run on the dict built so far; failing holds the languages whose
\* tree_sitter.Language or tree_sitter.Parser call raises
RECURSIVE TryLanguages(_, _, _)

\* the block without its own try/except: the failure reaches the outer handler
TryLanguage_unguarded(lang, failing, st) ==
    IF st.raised THEN st
    ELSE IF lang \in failing THEN Raise
    ELSE Return(st.val \cup {lang})

TryLanguage(lang, failing, st) ==
    IF st.raised THEN st
    ELSE IF lang \in failing THEN st
    ELSE Return(st.val \cup {lang})

TryLanguages(order, failing, st) ==
    IF order = <<>> THEN st
    ELSE TryLanguages(Tail(order), failing, TryLanguage(Head(order), failing, st))

\* [result, assigned, parsers]: what is returned, whether self.language_parsers is
\* assigned, and its new keys
initialize_parsers(available, failing) ==
    IF ~available
    THEN [result |-> [status |-> "warning", parsers_available |-> FALSE],
          assigned |-> FALSE, parsers |-> {}]
    ELSE LET st == TryLanguages(LanguageOrder, failing, Return({})) IN
         IF st.raised
         THEN [result |-> [status |-> "error"], assigned |-> FALSE, parsers |-> {}]
         ELSE [result |-> [status |-> "success",
                           parsers_initialized |-> Cardinality(st.val),
                           supported_languages |->
                               SelectSeq(LanguageOrder, LAMBDA l : l \in st.val)],
               assigned |-> TRUE, parsers |-> st.val]

(***************************************************************************)
(* analyze_repository                                                      *)
(*                                                                         *)
(* A repository is [exists, items]: exists says whether the directory can  *)
(* be listed, and items are its entries in the order iterdir() yields      *)
(* them.  An item is [kind, name, comps, suffix, parent, file]: comps are  *)
(* the parts between the dots of a file's stem or of a directory's name,   *)
(* parent is the index of the directory it is in (0 for the repository     *)
(* itself), and file is the index of its content in Files (0 for none).    *)
(* A module name is kept as the string the code builds.                    *)
(***************************************************************************)
RECURSIVE JoinDot(_)
JoinDot(comps) ==
    IF comps = <<>> THEN ""
    ELSE IF Len(comps) = 1 THEN comps[1]
    ELSE comps[1] \o "." \o JoinDot(Tail(comps))

\* str(item.relative_to(repository_path))
RECURSIVE RelativePath(_, _)
RelativePath(repo, k) ==
    IF repo.items[k].parent = 0 THEN repo.items[k].name
    ELSE RelativePath(repo, repo.items[k].parent) \o "/" \o repo.items[k].name

SourceSuffixes == {".py", ".js", ".ts", ".java", ".cpp", ".c"}
IgnoredDirectories == {".git", "__pycache__", "node_modules"}

\* the "if item.is_file() and item.suffix in [...]" branch of process_directory
AddModule(repo, k, current_module, modules) ==
    LET comps   == current_module \o repo.items[k].comps
        name    == JoinDot(comps)
        present == \E j \in 1..Len(modules) : modules[j].name = name
        created == IF present THEN modules
                   ELSE Append(modules,
                            [name |-> name, path |-> RelativePath(repo, k),
                             is_package |-> FALSE, level |-> Len(comps) - 1,
                             parent |-> IF Len(comps) > 1 THEN JoinDot(current_module)
                                        ELSE PyNone,
                             children |-> <<>>])
    IN  IF current_module # <<>>
        THEN [j \in 1..Len(created) |->
                 IF created[j].name = JoinDot(current_module)
                 THEN [created[j] EXCEPT !.children = Append(@, name)]
                 ELSE created[j]]
        ELSE created

\* process_directory on the items given, which are in one directory
RECURSIVE process_directory(_, _, _, _)
process_directory(repo, items, current_module, modules) ==
    IF items = <<>> THEN modules
    ELSE LET k    == Head(items)
             item == repo.items[k]
             here ==
                 IF item.kind = "file" /\ item.suffix \in SourceSuffixes
                 THEN AddModule(repo, k, current_module, modules)
                 ELSE IF item.kind = "dir" /\ item.name \notin IgnoredDirectories
                 THEN process_directory(repo,
                          SelectSeq([j \in 1..Len(repo.items) |-> j],
                                    LAMBDA j : repo.items[j].parent = k),
                          current_module \o item.comps, modules)
                 ELSE modules
         IN  process_directory(repo, Tail(items), current_module, here)

\* listing a directory that does not exist raises
build_module_hierarchy(repo) ==
    IF ~repo.exists
    THEN [status |-> "error", error |-> "Module hierarchy construction failed"]
    ELSE LET modules ==
                 process_directory(repo,
                     SelectSeq([j \in 1..Len(repo.items) |-> j],
                               LAMBDA j : repo.items[j].parent = 0),
                     <<>>, <<>>)
         IN  [status |-> "success", modules_created |-> Len(modules),
              module_hierarchy |-> modules]

\* scores in halves
calculate_repository_metrics ==
    [status |-> "success",
     metrics |-> [total_files |-> 0, total_elements |-> 0, total_relationships |-> 0,
                  complexity_distribution |-> {}, language_distribution |-> {},
                  dependency_metrics |-> [circular_dependencies |-> <<>>,
                                          orphaned_modules |-> <<>>,
                                          core_modules |-> <<>>],
                  quality_metrics |-> [avg_complexity |-> 0, max_complexity |-> 0,
                                       documentation_coverage |-> 0,
                                       test_coverage |-> 0]]]

\* one step of analyze_repository and the status it returned
Step(name, result) == [step |-> name, status |-> result.status]

\* an analysis that does not look at the outcome of its second step
analyze_repository_unchecked(repo, repository_path, available, failing, now) ==
    LET init          == initialize_parsers(available, failing)
        parser_result == init.result
        module_result == build_module_hierarchy(repo)
        metrics_result == calculate_repository_metrics
    IN  [assigned |-> init.assigned, parsers |-> init.parsers,
         steps |-> <<Step("initialize_parsers", parser_result),
                     Step("build_module_hierarchy", module_result),
                     Step("calculate_repository_metrics", metrics_result)>>,
         result |-> [status |-> "success", repository_path |-> repository_path,
                     parser_initialization |-> parser_result,
                     module_hierarchy |-> module_result,
                     metrics |-> metrics_result.metrics,
                     analysis_complete |-> TRUE, timestamp |-> now]]

\* [result, steps, assigned, parsers]: what is returned, the steps that ran with the
\* status of each, and what the initialize_parsers call of step 1 does to
\* self.language_parsers
analyze_repository(repo, repository_path, available, failing, now) ==
    LET init          == initialize_parsers(available, failing)
        parser_result == init.result
        module_result == build_module_hierarchy(repo)
        metrics_result == calculate_repository_metrics
    IN  [assigned |-> init.assigned, parsers |-> init.parsers,
         steps |->
            <<Step("initialize_parsers", parser_result)>>
            \o (IF parser_result.status = "error" THEN <<>>
                ELSE <<Step("build_module_hierarchy", module_result)>>
                     \o (IF module_result.status = "error" THEN <<>>
                         ELSE <<Step("calculate_repository_metrics", metrics_result)>>)),
         result |->
            IF parser_result.status = "error"
            THEN [error |-> "Parser initialization failed", details |-> "error"]
            ELSE IF module_result.status = "error"
            THEN [error |-> "Module hierarchy construction failed",
                  details |-> module_result.error]
            ELSE IF metrics_result.status = "error"
            THEN [error |-> "Metrics calculation failed", details |-> "error"]
            ELSE [status |-> "success", repository_path |-> repository_path,
                  parser_initialization |-> parser_result,
                  module_hierarchy |-> module_result,
                  metrics |-> metrics_result.metrics,
                  analysis_complete |-> TRUE, timestamp |-> now]]

(***************************************************************************)
(* DocGenie: the validation of the data the analyzer hands over            *)
(*                                                                         *)
(* ccg_data is a dict; only its keys are read by the validation.           *)
(***************************************************************************)
required_keys == <<"entities", "relationships", "metadata">>

validate_ccg_data(ccg_data) ==
    LET missing == SelectSeq(required_keys, LAMBDA key : key \notin DOMAIN ccg_data) IN
    IF DOMAIN ccg_data = {}
    THEN [raised |-> TRUE, error |-> "No CCG data provided for documentation generation"]
    ELSE IF missing # <<>>
    THEN [raised |-> TRUE, error |-> "CCG data missing required key: " \o missing[1]]
    ELSE [raised |-> FALSE]

\* config_raises: initialize_config raises (an unreadable config/config.json);
\* steps_raise: one of the steps 3 to 9 raises (a template or an output file that
\* cannot be written)
generate_documentation(ccg_data, config_raises, steps_raise) ==
    IF config_raises THEN [status |-> "failed", error |-> "config"]
    ELSE IF validate_ccg_data(ccg_data).raised
    THEN [status |-> "failed", error |-> validate_ccg_data(ccg_data).error]
    ELSE IF steps_raise THEN [status |-> "failed", error |-> "steps"]
    ELSE [status |-> "completed"]

(***************************************************************************)
(* The files analysed                                                      *)
(***************************************************************************)
N(type, parent, field, text, srow, erow) ==
    [type |-> type, parent |-> parent, field |-> field, text |-> text,
     srow |-> srow, erow |-> erow]

\* from sys import path / def foo(a, b): / if a and b: / g()
TextA ==
    <<"from", " ", "sys", " ", "import", " ", "path", NL,
      "def", " ", "foo", "(", "a", ",", " ", "b", ")", ":", NL,
      " ", "if", " ", "a", " ", "and", " ", "b", ":", NL,
      " ", " ", "g", "(", ")", NL>>
TreeA ==
    <<N("module", 0, "", "", 0, 3),
      N("import_from_statement", 1, "", "from sys import path", 0, 0),
      N("dotted_name", 2, "module_name", "sys", 0, 0),
      N("function_definition", 1, "", "def foo", 1, 3),
      N("identifier", 4, "name", "foo", 1, 1),
      N("parameters", 4, "parameters", "(a, b)", 1, 1),
      N("identifier", 6, "", "a", 1, 1),
      N("identifier", 6, "", "b", 1, 1),
      N("block", 4, "body", "if a and b: g()", 2, 3),
      N("if_statement", 9, "", "if a and b: g()", 2, 3),
      N("and_expression", 10, "condition", "a and b", 2, 2),
      N("block", 10, "consequence", "g()", 3, 3),
      N("call", 12, "", "g()", 3, 3),
      N("identifier", 13, "function", "g", 3, 3)>>

\* def h(): / h(      (the call is cut off: its node has no child)
TextB == <<"def", " ", "h", "(", ")", ":", NL, " ", "h", "(", NL>>
TreeB ==
    <<N("module", 0, "", "", 0, 1),
      N("function_definition", 1, "", "def h", 0, 1),
      N("identifier", 2, "name", "h", 0, 0),
      N("block", 2, "body", "h(", 1, 1),
      N("call", 4, "", "h(", 1, 1)>>

\* class K: / pass
TextC == <<"class", " ", "K", ":", NL, " ", "pass", NL>>
TreeC == <<N("module", 0, "", "", 0, 1)>>

\* import u from './util' / function run() { / if (u) u() / }
TextD ==
    <<"import", " ", "u", " ", "from", " ", "'", ".", "/", "util", "'", NL,
      "function", " ", "run", "(", ")", " ", "{", NL,
      " ", "if", " ", "(", "u", ")", " ", "u", "(", ")", NL,
      "}", NL>>
TreeD ==
    <<N("program", 0, "", "", 0, 3),
      N("import_statement", 1, "", "import u from './util'", 0, 0),
      N("string", 2, "source", "'./util'", 0, 0),
      N("function_declaration", 1, "", "function run", 1, 3),
      N("identifier", 4, "name", "run", 1, 1),
      N("formal_parameters", 4, "parameters", "()", 1, 1),
      N("statement_block", 4, "body", "{ if (u) u() }", 1, 3),
      N("if_statement", 7, "", "if (u) u()", 2, 2),
      N("call_expression", 8, "", "u()", 2, 2),
      N("identifier", 9, "function", "u", 2, 2)>>

\* class A { / }
TextE == <<"class", " ", "A", " ", "{", NL, "}", NL>>
TreeE ==
    <<N("program", 0, "", "", 0, 1),
      N("class_declaration", 1, "", "class A", 0, 1),
      N("identifier", 2, "name", "A", 0, 0),
      N("class_body", 2, "body", "{ }", 0, 1)>>

\* if x
TextF == <<"if", " ", "x", NL>>

\* import os / from sys import path
TextG ==
    <<"import", " ", "os", NL,
      "from", " ", "sys", " ", "import", " ", "path">>
TreeG ==
    <<N("module", 0, "", "", 0, 1),
      N("import_statement", 1, "", "import os", 0, 0),
      N("dotted_name", 2, "name", "os", 0, 0),
      N("import_from_statement", 1, "", "from sys import path", 1, 1),
      N("dotted_name", 4, "module_name", "sys", 1, 1),
      N("dotted_name", 4, "name", "path", 1, 1)>>

File(path, language, readable, text, parse_raises, t) ==
    [path |-> path, language |-> language, readable |-> readable, text |-> text,
     parse_raises |-> parse_raises, tree |-> t]

Files ==
    <<File("a.py", "python", TRUE, TextA, FALSE, TreeA),
      File("b.py", "python", TRUE, TextB, FALSE, TreeB),
      File("c.py", "python", TRUE, TextC, TRUE, TreeC),
      File("d.js", "javascript", TRUE, TextD, FALSE, TreeD),
      File("e.java", "java", TRUE, TextE, FALSE, TreeE),
      File("f.xyz", "unknown", TRUE, TextF, FALSE, TreeC),
      File("gone.py", "python", FALSE, <<>>, FALSE, TreeC),
      File("g.py", "python", TRUE, TextG, FALSE, TreeG)>>

(***************************************************************************)
(* The repositories analysed                                               *)
(***************************************************************************)
Item(kind, name, comps, suffix, parent, file) ==
    [kind |-> kind, name |-> name, comps |-> comps, suffix |-> suffix,
     parent |-> parent, file |-> file]

Repositories ==
    << \* a directory that does not exist
       [path |-> "/tmp/missing", exists |-> FALSE, items |-> <<>>],
       \* an empty directory
       [path |-> "/tmp/empty", exists |-> TRUE, items |-> <<>>],
       \* a.py, d.js, README.md
       [path |-> "/tmp/flat", exists |-> TRUE,
        items |-> <<Item("file", "a.py", <<"a">>, ".py", 0, 1),
                    Item("file", "d.js", <<"d">>, ".js", 0, 4),
                    Item("file", "README.md", <<"README">>, ".md", 0, 0)>>],
       \* a.py, a/g.py, node_modules/d.js
       [path |-> "/tmp/nested", exists |-> TRUE,
        items |-> <<Item("file", "a.py", <<"a">>, ".py", 0, 1),
                    Item("dir", "a", <<"a">>, "", 0, 0),
                    Item("file", "g.py", <<"g">>, ".py", 2, 8),
                    Item("dir", "node_modules", <<"node_modules">>, "", 0, 0),
                    Item("file", "d.js", <<"d">>, ".js", 4, 4)>>],
       \* a/g.py, a.py, f.xyz: the directory is listed before the file of its name
       [path |-> "/tmp/dirfirst", exists |-> TRUE,
        items |-> <<Item("dir", "a", <<"a">>, "", 0, 0),
                    Item("file", "g.py", <<"g">>, ".py", 1, 8),
                    Item("file", "a.py", <<"a">>, ".py", 0, 1),
                    Item("file", "f.xyz", <<"f">>, ".xyz", 0, 6)>>] >>

\* the sets of languages whose parser fails to initialize in step 1: none, two in
\* the middle of the sequence, all
FailingSets == {{}, {"javascript", "java"}, Languages}

\* datetime.datetime.now().isoformat() at the end of a call
Clock == {"2025-01-01T00:00:00", "2025-01-01T00:00:01"}

\* the dicts handed to generate_documentation besides the analyzer's result: an
\* empty dict, a graph without entries, and one that lacks the metadata
CcgInputs ==
    { <<>>,
      [entities |-> <<>>, relationships |-> <<>>, metadata |-> "none"],
      [entities |-> <<>>, relationships |-> <<>>] }

(***************************************************************************)
(* The syntax trees the extractors and scorers are run on: every tree of   *)
(* at most MaxNodes nodes over the node types of one family, in which a    *)
(* clause node is a child of its statement and the list of bases of a      *)
(* class holds names and dotted names.  Node k is on row k - 1, has the    *)
(* text "n<k>", and the field its type has in a parent of its parent's     *)
(* type.                                                                   *)
(***************************************************************************)
Families == {"python-score", "python-extract", "python-class", "javascript",
             "javascript-score"}

FamilyLanguage(family) ==
    IF family \in {"javascript", "javascript-score"} THEN "javascript" ELSE "python"

NodeTypes(family) ==
    IF family = "python-score"
    THEN {"block", "if_statement", "for_statement", "while_statement", "try_statement",
          "elif_clause", "except_clause", "and_expression", "or_expression", "identifier"}
    ELSE IF family = "python-extract"
    THEN {"function_definition", "class_definition", "assignment", "block", "identifier",
          "call", "attribute", "import_from_statement", "dotted_name", "if_statement",
          "and_expression"}
    ELSE IF family = "python-class"
    THEN {"argument_list", "identifier", "attribute", "block", "if_statement",
          "or_expression"}
    ELSE IF family = "javascript-score"
    THEN {"statement_block", "if_statement", "try_statement", "catch_clause",
          "switch_statement", "case_clause", "binary_expression"}
    ELSE {"function_declaration", "class_declaration", "variable_declaration",
          "statement_block", "identifier", "call_expression", "import_statement",
          "if_statement", "switch_statement", "case_clause", "binary_expression",
          "method_definition"}

RootTypes(family) ==
    IF family = "python-score" THEN {"block", "if_statement", "try_statement"}
    ELSE IF family = "python-extract" THEN {"module", "function_definition", "class_definition"}
    ELSE IF family = "python-class" THEN {"class_definition"}
    ELSE IF family = "javascript-score" THEN {"statement_block", "try_statement"}
    ELSE {"program", "function_declaration", "class_declaration"}

FieldOf(parent_type, type) ==
    IF type = "identifier" /\ parent_type \in {"function_definition", "class_definition",
                                               "function_declaration", "class_declaration"}
    THEN "name"
    ELSE IF type \in {"block", "statement_block"}
            /\ parent_type \in {"function_definition", "class_definition",
                                "function_declaration", "class_declaration"}
    THEN "body"
    ELSE IF type = "argument_list" /\ parent_type = "class_definition" THEN "bases"
    ELSE IF type = "identifier" /\ parent_type = "call_expression" THEN "function"
    ELSE IF type = "identifier" /\ parent_type = "import_statement" THEN "source"
    ELSE ""

Parents(n) == {p \in [1..n -> 0..(n - 1)] : \A k \in 1..n : p[k] < k /\ (p[k] = 0 <=> k = 1)}

MaxOf(S) == CHOOSE m \in S : \A k \in S : k <= m

\* a clause node is a child of the statement it is a clause of
ClauseOf(type) ==
    IF type = "elif_clause" THEN "if_statement"
    ELSE IF type = "except_clause" THEN "try_statement"
    ELSE IF type = "case_clause" THEN "switch_statement"
    ELSE IF type = "catch_clause" THEN "try_statement"
    ELSE ""

\* the expressions in the list of bases of a class: a name or a dotted name
BaseTypes == {"identifier", "attribute"}

WellFormed(types, parents) ==
    \A k \in DOMAIN types :
        /\ ClauseOf(types[k]) # "" => (k > 1 /\ types[parents[k]] = ClauseOf(types[k]))
        /\ (k > 1 /\ types[parents[k]] = "argument_list") => types[k] \in BaseTypes

MakeTree(types, parents) ==
    LET raw == [k \in DOMAIN types |->
                   N(types[k], parents[k],
                     IF k = 1 THEN "" ELSE FieldOf(types[parents[k]], types[k]),
                     "n" \o ToString(k), k - 1, k - 1)]
    IN  [k \in DOMAIN types |->
            [raw[k] EXCEPT !.erow =
                MaxOf({Descent(raw, k)[j] : j \in 1..Len(Descent(raw, k))}) - 1]]

Trees(family) ==
    UNION {{MakeTree(tp[1], tp[2]) :
                tp \in {x \in [1..n -> NodeTypes(family) \cup RootTypes(family)] \X Parents(n) :
                           /\ x[1][1] \in RootTypes(family)
                           /\ \A k \in 2..n : x[1][k] \in NodeTypes(family)
                           /\ WellFormed(x[1], x[2])}} : n \in 1..MaxNodes}

(***************************************************************************)
(* The source texts the regex extractors and scorer are run on: every text *)
(* of at most MaxLines of the lines below, with or without a final         *)
(* newline.                                                                *)
(***************************************************************************)
Lines ==
    { <<"def", " ", "foo", "(", "a", ",", " ", "b", ")", ":">>,
      <<" ", " ", " ", " ", "pass">>,
      <<"def">>,
      <<"h", "(", ")", ":">>,
      <<"class", " ", "K", "(", "B", ")", ":">>,
      <<"x", " ", "=", " ", "'", "if", " ", "a", " ", "and", " ", "b", "'">>,
      <<"#", " ", "for", " ", "x", " ", "or", " ", "while">>,
      <<"elif", " ", "format", ":">>,
      <<"try", ":">>,
      <<"import", " ", "os">>,
      <<"from", " ", "sys", " ", "import", " ", "path">>,
      <<"function", " ", "run", "(", ")", " ", "{">>,
      <<"class", " ", "A", " ", "{">>,
      <<"import", " ", "u", " ", "from", " ", "'", ".", "/", "util", "'">> }

RECURSIVE JoinLines(_)
JoinLines(ls) ==
    IF Len(ls) = 1 THEN ls[1] ELSE ls[1] \o <<NL>> \o JoinLines(Tail(ls))

Texts ==
    UNION {{JoinLines(ls) \o final : ls \in [1..n -> Lines], final \in {<<>>, <<NL>>}} :
              n \in 1..MaxLines}

(***************************************************************************)
(* The agent: initialize_parsers and parse_file calls in any order         *)
(***************************************************************************)
NoOutput == [op |-> "none"]
NotInitialized == [called |-> FALSE, failing |-> {}, result |-> [status |-> "none"]]
NotAnalysed == [called |-> FALSE]
NotGenerated == [called |-> FALSE]
NotMapped == [called |-> FALSE]
NoWorkflows == [active_workflows |-> <<>>, completed_workflows |-> <<>>]
NoResponse == [op |-> "none"]

\* the mapper and the API before their first call
Idle ==
    /\ mapping = NotMapped
    /\ workflow_manager = NoWorkflows
    /\ tasks = <<>>
    /\ response = NoResponse

Init ==
    /\ tree_sitter_available \in BOOLEAN
    /\ language_parsers = {}
    /\ init_result = NotInitialized
    /\ calls = <<>>
    /\ tree = <<>>
    /\ tlang = "none"
    /\ out = NoOutput
    /\ source_code = <<>>
    /\ analysis = NotAnalysed
    /\ documentation = NotGenerated
    /\ Idle

\* initialize_parsers() with the languages in failing failing to initialize; the run
\* ends with its last parse_file call
InitializeParsers ==
    \E failing \in SUBSET Languages :
        LET r == initialize_parsers(tree_sitter_available, failing) IN
        /\ Len(calls) < MaxCalls
        /\ init_result' = [called |-> TRUE, failing |-> failing, result |-> r.result]
        /\ language_parsers' = IF r.assigned THEN r.parsers ELSE language_parsers
        /\ UNCHANGED <<tree_sitter_available, calls, tree, tlang, out,
                       source_code, analysis, documentation, mapping, api_vars>>

\* parse_file(file_path, language) on one of the files; the call and its outcome
\* are appended to calls
ParseFile ==
    \E k \in 1..Len(Files) :
        /\ Len(calls) < MaxCalls
        /\ calls' = Append(calls,
               [file |-> k,
                has_parser |-> Files[k].language \in language_parsers,
                outcome |-> parse_file(Files[k], Files[k].language,
                                       tree_sitter_available, language_parsers)])
        /\ UNCHANGED <<tree_sitter_available, language_parsers, init_result, tree, tlang, out,
                       source_code, analysis, documentation, mapping, api_vars>>

Next == InitializeParsers \/ ParseFile

Spec == Init /\ [][Next]_vars

(***************************************************************************)
(* The extractors and scorers on one syntax tree or one source text        *)
(***************************************************************************)
InitTree ==
    /\ tree_sitter_available = TRUE
    /\ language_parsers = {}
    /\ init_result = NotInitialized
    /\ calls = <<>>
    /\ \/ \E family \in Families :
              /\ tree \in Trees(family)
              /\ tlang = FamilyLanguage(family)
              /\ source_code = <<>>
       \/ /\ tree = <<>>
          /\ tlang \in {"python", "javascript"}
          /\ source_code \in Texts
    /\ out = NoOutput
    /\ analysis = NotAnalysed
    /\ documentation = NotGenerated
    /\ Idle

TreePath == IF tlang = "javascript" THEN "m.js" ELSE "m.py"

Run(op, val) ==
    /\ out' = [op |-> op, val |-> val]
    /\ UNCHANGED <<tree_sitter_available, language_parsers, init_result, calls, tree, tlang,
                   source_code, analysis, documentation, mapping, api_vars>>

ScorePython ==
    /\ tree # <<>>
    /\ tlang = "python"
    /\ Run("calculate_python_complexity", calculate_python_complexity(tree, 1))

ScoreJs ==
    /\ tree # <<>>
    /\ tlang = "javascript"
    /\ Run("calculate_js_complexity", calculate_js_complexity(tree, 1))

ScoreFile ==
    /\ tree # <<>>
    /\ Run("calculate_complexity_score", calculate_complexity_score(tree, 1))

ExtractElements ==
    /\ tree # <<>>
    /\ Run("extract_code_elements", extract_code_elements(tree, 1, tlang, TreePath))

ExtractRelationships ==
    /\ tree # <<>>
    /\ Run("extract_relationships", extract_relationships(tree, 1, tlang, TreePath))

ExtractElementsRegex ==
    /\ source_code # <<>>
    /\ Run("extract_elements_with_regex",
           extract_elements_with_regex(source_code, tlang, TreePath))

ExtractRelationshipsRegex ==
    /\ source_code # <<>>
    /\ Run("extract_relationships_with_regex",
           extract_relationships_with_regex(source_code, tlang, TreePath))

ScoreRegex ==
    /\ source_code # <<>>
    /\ Run("calculate_complexity_with_regex", calculate_complexity_with_regex(source_code))

NextTree ==
    \/ ScorePython \/ ScoreJs \/ ScoreFile \/ ExtractElements \/ ExtractRelationships
    \/ ExtractElementsRegex \/ ExtractRelationshipsRegex \/ ScoreRegex

SpecTree == InitTree /\ [][NextTree]_vars

(***************************************************************************)
(* Repository Mapper Agent (src/agents/repository-mapper): map_repository  *)
(*                                                                         *)
(* A repository URL is [host, owner, repo]; NotAString stands for a value  *)
(* that is not a string.  What git and the file system do is an input of   *)
(* the call: clone says how Repo.clone_from ends, walk and readme how the  *)
(* reading of the clone ends, rmtree how the removal of the clone ends.    *)
(***************************************************************************)
NotAString == [host |-> PyNone, owner |-> PyNone, repo |-> PyNone]

Urls ==
    { [host |-> "github.com", owner |-> "octo", repo |-> "demo"],
      [host |-> "gitlab.com", owner |-> "octo", repo |-> "demo"],
      [host |-> "github.com", owner |-> "octo", repo |-> ""],
      NotAString }

ClonePath == "/tmp/codebase_genius_1"

\* re.match of the github.com pattern; a value that is not a string raises
validate_github_url(repository_url) ==
    IF repository_url = NotAString THEN Raise
    ELSE IF ~( /\ repository_url.host = "github.com"
               /\ repository_url.owner # ""
               /\ repository_url.repo # "" )
    THEN Return([error |-> "Invalid GitHub repository URL format"])
    ELSE Return([status |-> "valid", username |-> repository_url.owner,
                 repository |-> repository_url.repo])

clone_repository(git_available, clone) ==
    IF ~git_available THEN [error |-> "GitPython not available"]
    ELSE IF clone = "authentication" THEN [error |-> "Authentication failed"]
    ELSE IF clone = "failed" THEN [error |-> "Git clone failed"]
    ELSE [status |-> "success", clone_path |-> ClonePath]

generate_file_tree(walk) ==
    IF walk = "raises" THEN [error |-> "File tree generation failed"]
    ELSE [status |-> "success"]

summarize_readme(readme) ==
    IF readme = "raises" THEN [error |-> "README summarization failed"]
    ELSE IF readme = "missing" THEN [status |-> "not_found"]
    ELSE [status |-> "success"]

cleanup_repository(rmtree) ==
    IF rmtree = "raises" THEN [status |-> "error"]
    ELSE IF rmtree = "missing" THEN [status |-> "warning"]
    ELSE [status |-> "success"]

\* [steps, removed, result]: the methods called in order, whether the clone was
\* removed, and what is returned
map_repository(repository_url, git_available, clone, walk, readme, rmtree, now) ==
    LET validation == validate_github_url(repository_url)
        cloning    == clone_repository(git_available, clone)
    IN  IF validation.raised
        THEN [steps |-> <<"validate_github_url">>, removed |-> FALSE,
              result |-> [status |-> "error", error |-> "exception"]]
        ELSE IF "error" \in DOMAIN validation.val
        THEN [steps |-> <<"validate_github_url">>, removed |-> FALSE,
              result |-> [error |-> "URL validation failed"]]
        ELSE IF "error" \in DOMAIN cloning
        THEN [steps |-> <<"validate_github_url", "clone_repository">>, removed |-> FALSE,
              result |-> [error |-> "Repository cloning failed"]]
        ELSE IF "error" \in DOMAIN generate_file_tree(walk)
        THEN [steps |-> <<"validate_github_url", "clone_repository", "generate_file_tree">>,
              removed |-> FALSE,
              result |-> [error |-> "File tree generation failed"]]
        ELSE IF "error" \in DOMAIN summarize_readme(readme)
        THEN [steps |-> <<"validate_github_url", "clone_repository", "generate_file_tree",
                          "summarize_readme">>,
              removed |-> FALSE,
              result |-> [error |-> "README summarization failed"]]
        ELSE [steps |-> <<"validate_github_url", "clone_repository", "generate_file_tree",
                          "summarize_readme", "cleanup_repository">>,
              removed |-> cleanup_repository(rmtree).status = "success",
              result |-> [status |-> "success", processing_complete |-> TRUE,
                          timestamp |-> now]]

World(git_available, clone, walk, readme, rmtree) ==
    [git_available |-> git_available, clone |-> clone, walk |-> walk, readme |-> readme,
     rmtree |-> rmtree]

\* what git and the file system do during one call: each way a step can end, the
\* steps before it ending well
Worlds ==
    { World(FALSE, "cloned", "listed", "found", "removed"),
      World(TRUE, "authentication", "listed", "found", "removed"),
      World(TRUE, "failed", "listed", "found", "removed"),
      World(TRUE, "cloned", "raises", "found", "removed"),
      World(TRUE, "cloned", "listed", "raises", "removed"),
      World(TRUE, "cloned", "listed", "missing", "removed"),
      World(TRUE, "cloned", "listed", "found", "removed"),
      World(TRUE, "cloned", "listed", "found", "missing"),
      World(TRUE, "cloned", "listed", "found", "raises") }

\* map_repository(repository_url) on one of the URLs
MapRepository ==
    \E repository_url \in Urls, w \in Worlds, now \in Clock :
        LET m == map_repository(repository_url, w.git_available, w.clone, w.walk, w.readme,
                                w.rmtree, now)
        IN  /\ mapping' = [called |-> TRUE, repository_url |-> repository_url,
                           cloned |-> /\ Len(m.steps) >= 2
                                      /\ w.git_available /\ w.clone = "cloned",
                           steps |-> m.steps, removed |-> m.removed, result |-> m.result]
            /\ UNCHANGED <<agent_vars, api_vars>>

(***************************************************************************)
(* The repository analysis and its hand-over to documentation generation   *)
(***************************************************************************)
InitRepo == Init

\* analyze_repository(repository_path) on one of the repositories; its step 1 is an
\* initialize_parsers call
AnalyzeRepository ==
    \E r \in 1..Len(Repositories), failing \in FailingSets, now \in Clock :
        LET a == analyze_repository(Repositories[r], Repositories[r].path,
                                    tree_sitter_available, failing, now)
        IN  /\ analysis' = [called |-> TRUE, repository |-> r, steps |-> a.steps,
                             result |-> a.result]
            /\ language_parsers' = IF a.assigned THEN a.parsers ELSE language_parsers
            /\ init_result' = [called |-> TRUE, failing |-> failing,
                               result |-> initialize_parsers(tree_sitter_available,
                                                             failing).result]
            /\ UNCHANGED <<tree_sitter_available, calls, tree, tlang, out,
                           source_code, documentation, mapping, api_vars>>

\* generate_documentation(ccg_data, repository_info) on a dict
GenerateDocumentationOn(ccg_data, from_analysis) ==
    \E config_raises, steps_raise \in BOOLEAN :
        /\ documentation' =
               [called |-> TRUE, from_analysis |-> from_analysis,
                keys |-> DOMAIN ccg_data,
                result |-> generate_documentation(ccg_data, config_raises, steps_raise)]
        /\ UNCHANGED <<tree_sitter_available, language_parsers, init_result, calls,
                       tree, tlang, out, source_code, analysis, mapping, api_vars>>

\* the workflow hands the result of analyze_repository over as ccg_data
GenerateDocumentation ==
    \/ /\ analysis.called
       /\ GenerateDocumentationOn(analysis.result, TRUE)
    \/ \E ccg_data \in CcgInputs : GenerateDocumentationOn(ccg_data, FALSE)

NextRepo == MapRepository \/ AnalyzeRepository \/ GenerateDocumentation

SpecRepo == InitRepo /\ [][NextRepo]_vars

(***************************************************************************)
(* HTTP API (src/api/routes_simple.py and the routes.py of the supabase    *)
(* function): the workflow manager, the background generation tasks and    *)
(* the status, download and delete endpoints                               *)
(*                                                                         *)
(* A workflow id is the number of the create_workflow call that made it    *)
(* (uuid4 never returns an id twice).  A dict keyed by workflow id is a    *)
(* function on the ids it holds.  progress is kept in hundredths.  A       *)
(* workflow is [status, progress, current_step, result, error_message];    *)
(* its request, created_at and estimated_completion are written once and   *)
(* never read by the code modelled.  result is NoResult for None and       *)
(* otherwise the dict, of which output_directory is the key that is read.  *)
(*                                                                         *)
(* A generation task is [mode, pc, done, raised]: mode names the function that     *)
(* runs (simple: generate_documentation of routes_simple.py; quick and     *)
(* full: generate_documentation_quick and _full_agents of routes.py), pc   *)
(* counts the update_workflow calls of its try block made so far, done     *)
(* says that the coroutine has returned (its frame, and pc with it, is     *)
(* gone: pc is 0 again), raised that its except handler ran.  The handlers and the tasks run on one asyncio    *)
(* event loop: a task gives the loop up only at an await, and the only     *)
(* await of a generation function is that of validate_repository_url.      *)
(***************************************************************************)
NoResult == [none |-> TRUE]
NoWorkflow == [none |-> TRUE]

Put(dict, key, value) ==
    [k \in DOMAIN dict \cup {key} |-> IF k = key THEN value ELSE dict[k]]
Pop(dict, key) == [k \in DOMAIN dict \ {key} |-> dict[k]]

create_workflow(wm, workflow_id) ==
    [wm EXCEPT !.active_workflows =
        Put(@, workflow_id,
            [status |-> "pending", progress |-> 0, current_step |-> "Initializing",
             result |-> NoResult, error_message |-> PyNone])]

\* an update that writes the workflow wherever it is, and anew when it is gone
update_workflow_unguarded(wm, workflow_id, status, progress, current_step, result, error_message) ==
    LET updated == [status |-> status, progress |-> progress,
                    current_step |-> current_step, result |-> result,
                    error_message |-> error_message]
    IN  IF status \in {"completed", "failed"}
        THEN [active_workflows |-> Pop(wm.active_workflows, workflow_id),
              completed_workflows |-> Put(wm.completed_workflows, workflow_id, updated)]
        ELSE [active_workflows |-> Put(wm.active_workflows, workflow_id, updated),
              completed_workflows |-> Pop(wm.completed_workflows, workflow_id)]

\* an update that copies a finished workflow without removing it
update_workflow_copying(wm, workflow_id, status, progress, current_step, result, error_message) ==
    IF workflow_id \in DOMAIN wm.active_workflows
    THEN LET updated == [wm.active_workflows[workflow_id] EXCEPT
                            !.status = status, !.progress = progress,
                            !.current_step = current_step, !.result = result,
                            !.error_message = error_message]
         IN  IF status \in {"completed", "failed"}
             THEN [active_workflows |-> Put(wm.active_workflows, workflow_id, updated),
                   completed_workflows |->
                       Put(wm.completed_workflows, workflow_id, updated)]
             ELSE [wm EXCEPT !.active_workflows = Put(@, workflow_id, updated)]
    ELSE wm

update_workflow(wm, workflow_id, status, progress, current_step, result, error_message) ==
    IF workflow_id \in DOMAIN wm.active_workflows
    THEN LET updated == [wm.active_workflows[workflow_id] EXCEPT
                            !.status = status, !.progress = progress,
                            !.current_step = current_step, !.result = result,
                            !.error_message = error_message]
         IN  IF status \in {"completed", "failed"}
             THEN [active_workflows |-> Pop(wm.active_workflows, workflow_id),
                   completed_workflows |->
                       Put(wm.completed_workflows, workflow_id, updated)]
             ELSE [wm EXCEPT !.active_workflows = Put(@, workflow_id, updated)]
    ELSE wm

\* active_workflows.get(id) or completed_workflows.get(id)
get_workflow_status(wm, workflow_id) ==
    IF workflow_id \in DOMAIN wm.active_workflows THEN wm.active_workflows[workflow_id]
    ELSE IF workflow_id \in DOMAIN wm.completed_workflows
    THEN wm.completed_workflows[workflow_id]
    ELSE NoWorkflow

Running(progress, current_step) ==
    [status |-> "running", progress |-> progress, current_step |-> current_step]

\* the update_workflow calls of the try block before the last one
RunningUpdates(mode) ==
    IF mode = "simple"
    THEN <<Running(10, "Validating repository"), Running(20, "Cloning repository"),
           Running(40, "Mapping repository structure"),
           Running(60, "Analyzing code structure"),
           Running(90, "Finalizing documentation")>>
    ELSE IF mode = "quick"
    THEN <<Running(10, "Validating repository"), Running(30, "Fetching repository info"),
           Running(60, "Analyzing structure"), Running(90, "Generating documentation")>>
    ELSE <<Running(5, "Initializing AI agents"), Running(10, "Validating repository"),
           Running(20, "Cloning repository"), Running(40, "Mapping repository structure"),
           Running(50, "Analyzing code structure"), Running(70, "Generating documentation"),
           Running(90, "Finalizing output")>>

CompletedStep(mode) ==
    IF mode = "quick" THEN "Quick documentation generated"
    ELSE "Documentation generated successfully"

\* the progress written by the except handler, kept at its last value
FailedProgress_kept(workflow) == workflow.progress

\* the progress written by the except handler
FailedProgress(workflow) == 0

\* the statements after update number pc of the try block can raise: every update
\* is followed by work, the last one by the exit of the TemporaryDirectory block
\* (simple, quick) or by nothing (full)
CanRaiseAfter(mode, pc) ==
    /\ pc >= 1
    /\ (pc <= Len(RunningUpdates(mode)) \/ mode \in {"simple", "quick"})

Scheduled(mode) == [mode |-> mode, pc |-> 0, done |-> FALSE, raised |-> FALSE]
Finished(mode, raised) == [mode |-> mode, pc |-> 0, done |-> TRUE, raised |-> raised]

\* the modes that one deployment can run side by side
SameApp(mode, other) == (mode = "simple") <=> (other = "simple")

\* the update after which the task awaits validate_repository_url, its only await
AwaitPoint(mode) == IF mode = "full" THEN 2 ELSE 1

\* the task holds the event loop: it has started and is not suspended at its
\* await, so no handler and no other task runs before it awaits or returns
HoldsLoop(task) == ~task.done /\ task.pc >= 1 /\ task.pc # AwaitPoint(task.mode)

\* the event loop can run a handler, or a step of the task of workflow_id
LoopFree == \A k \in 1..Len(tasks) : ~HoldsLoop(tasks[k])
LoopFreeFor(workflow_id) ==
    \A k \in 1..Len(tasks) : k # workflow_id => ~HoldsLoop(tasks[k])

\* POST /api/analyze: create_workflow, then the task is scheduled
StartAnalysis ==
    \E mode \in {"simple", "quick", "full"} :
        /\ LoopFree
        /\ Len(tasks) < MaxWorkflows
        /\ \A k \in 1..Len(tasks) : SameApp(mode, tasks[k].mode)
        /\ workflow_manager' = create_workflow(workflow_manager, Len(tasks) + 1)
        /\ tasks' = Append(tasks, Scheduled(mode))
        /\ UNCHANGED <<agent_vars, mapping, response>>

\* the task makes the next update_workflow call of its try block
TaskUpdate(workflow_id) ==
    /\ workflow_id \in 1..Len(tasks)
    /\ LoopFreeFor(workflow_id)
    /\ LET task == tasks[workflow_id]
           n    == Len(RunningUpdates(task.mode))
       IN  /\ ~task.done
           /\ task.pc <= n
           /\ workflow_manager' =
                  IF task.pc < n
                  THEN LET u == RunningUpdates(task.mode)[task.pc + 1]
                       IN  update_workflow(workflow_manager, workflow_id, u.status,
                                           u.progress, u.current_step, NoResult, PyNone)
                  ELSE update_workflow(workflow_manager, workflow_id, "completed", 100,
                                       CompletedStep(task.mode),
                                       [output_directory |-> workflow_id], PyNone)
           /\ tasks' = [tasks EXCEPT ![workflow_id].pc = task.pc + 1]
    /\ UNCHANGED <<agent_vars, mapping, response>>

\* an except handler that only logs the exception
report_failure_logged(wm, workflow_id) == wm

\* the except handler of the generation functions
report_failure(wm, workflow_id) ==
    LET workflow == get_workflow_status(wm, workflow_id)
    IN  update_workflow(wm, workflow_id, "failed",
                        IF workflow = NoWorkflow THEN 0 ELSE FailedProgress(workflow),
                        "Generation failed", NoResult, "error")

\* a statement of the try block raises: the except handler reports the failure
TaskRaise(workflow_id) ==
    /\ workflow_id \in 1..Len(tasks)
    /\ LoopFreeFor(workflow_id)
    /\ LET task == tasks[workflow_id]
       IN  /\ ~task.done
           /\ CanRaiseAfter(task.mode, task.pc)
           /\ workflow_manager' = report_failure(workflow_manager, workflow_id)
           /\ tasks' = [tasks EXCEPT ![workflow_id] = Finished(task.mode, TRUE)]
    /\ UNCHANGED <<agent_vars, mapping, response>>

\* the try block ends without an exception
TaskReturn(workflow_id) ==
    /\ workflow_id \in 1..Len(tasks)
    /\ LoopFreeFor(workflow_id)
    /\ LET task == tasks[workflow_id]
       IN  /\ ~task.done
           /\ task.pc = Len(RunningUpdates(task.mode)) + 1
           /\ tasks' = [tasks EXCEPT ![workflow_id] = Finished(task.mode, FALSE)]
    /\ UNCHANGED <<agent_vars, mapping, workflow_manager, response>>

Answer(op, workflow_id, code) == [op |-> op, workflow_id |-> workflow_id, code |-> code]

\* GET /api/status/{workflow_id}
GetWorkflowStatus(workflow_id) ==
    /\ LoopFree
    /\ response' =
           IF get_workflow_status(workflow_manager, workflow_id) = NoWorkflow
           THEN Answer("status", workflow_id, 404)
           ELSE Answer("status", workflow_id, 200)
    /\ UNCHANGED <<agent_vars, mapping, workflow_manager, tasks>>

\* GET /api/download/{workflow_id}; zip_exists: documentation.zip is still on disk
download_documentation(wm, workflow_id, zip_exists) ==
    LET workflow == get_workflow_status(wm, workflow_id) IN
    IF workflow = NoWorkflow THEN 404
    ELSE IF workflow.status # "completed" THEN 400
    ELSE IF "output_directory" \notin DOMAIN workflow.result THEN 500
    ELSE IF ~zip_exists THEN 500
    ELSE 200

DownloadDocumentation(workflow_id) ==
    \E zip_exists \in BOOLEAN :
        /\ LoopFree
        /\ response' = Answer("download", workflow_id,
                              download_documentation(workflow_manager, workflow_id,
                                                     zip_exists))
        /\ UNCHANGED <<agent_vars, mapping, workflow_manager, tasks>>

\* DELETE /api/workflows/{workflow_id}: "'output_directory' in result" raises
\* TypeError when result is None, and the request is answered 500
DeleteWorkflow(workflow_id) ==
    LET workflow == get_workflow_status(workflow_manager, workflow_id) IN
    /\ LoopFree
    /\ IF workflow = NoWorkflow
       THEN /\ response' = Answer("delete", workflow_id, 404)
            /\ UNCHANGED workflow_manager
       ELSE IF workflow.result = NoResult
       THEN /\ response' = Answer("delete", workflow_id, 500)
            /\ UNCHANGED workflow_manager
       ELSE /\ response' = Answer("delete", workflow_id, 200)
            /\ workflow_manager' =
                   [active_workflows |-> Pop(workflow_manager.active_workflows,
                                             workflow_id),
                    completed_workflows |-> Pop(workflow_manager.completed_workflows,
                                                workflow_id)]
    /\ UNCHANGED <<agent_vars, mapping, tasks>>

InitApi ==
    /\ Init
    /\ tree_sitter_available = TRUE

NextApi ==
    \/ StartAnalysis
    \/ \E workflow_id \in 1..MaxWorkflows :
           \/ TaskUpdate(workflow_id) \/ TaskRaise(workflow_id) \/ TaskReturn(workflow_id)
           \/ GetWorkflowStatus(workflow_id) \/ DownloadDocumentation(workflow_id)
           \/ DeleteWorkflow(workflow_id)

SpecApi == InitApi /\ [][NextApi]_vars

\* a task that is scheduled keeps running until its coroutine returns
TaskRuns(workflow_id) ==
    TaskUpdate(workflow_id) \/ TaskRaise(workflow_id) \/ TaskReturn(workflow_id)

SpecApiLive ==
    /\ SpecApi
    /\ \A workflow_id \in 1..MaxWorkflows : WF_vars(TaskRuns(workflow_id))

(***************************************************************************)
(* Properties                                                              *)
(***************************************************************************)
Entries == {calls[k] : k \in 1..Len(calls)}
FileOf(e) == Files[e.file]
Returned(e) == ~e.outcome.raised
Succeeded(e) == Returned(e) /\ e.outcome.val.status = "success"
Failed(e) == Returned(e) /\ e.outcome.val.status = "error"
\* the call had an initialized structured parser for the file's language
Structured(e) == tree_sitter_available /\ e.has_parser
ElementsOf(e) == e.outcome.val.elements
RelationshipsOf(e) == e.outcome.val.relationships
Range(seq) == {seq[k] : k \in 1..Len(seq)}

\* C1: every file that parse_file analyses successfully, in structured and in
\* regex-fallback mode, reports elements_found = the length of the returned
\* elements list and relationships_found = the length of the returned
\* relationships list.
C1_CountsMatchLists ==
    \A e \in Entries :
        Succeeded(e) =>
            /\ e.outcome.val.file_analysis.elements_found = Len(ElementsOf(e))
            /\ e.outcome.val.file_analysis.relationships_found = Len(RelationshipsOf(e))

\* a run that analysed one file in structured mode and one in regex mode, each
\* with elements, and one of them with a different number of relationships
C1_Witness ==
    \E a, b \in Entries :
        /\ Succeeded(a) /\ Structured(a) /\ Len(ElementsOf(a)) > 0
        /\ Succeeded(b) /\ ~Structured(b) /\ Len(ElementsOf(b)) > 0
        /\ Len(RelationshipsOf(a)) # Len(ElementsOf(a))

\* the structured parser, or the traversal of its tree, throws on the file
StructuredThrows(f) ==
    \/ f.parse_raises
    \/ extract_code_elements(f.tree, 1, f.language, f.path).raised
    \/ extract_relationships(f.tree, 1, f.language, f.path).raised

\* C2: when the structured parser throws while parsing or traversing a file, the
\* analysis of that file falls back to regex extraction and returns the regex
\* result (status "error" only if the regex fallback fails as well).
C2_FallsBackToRegex ==
    \A e \in Entries :
        (Structured(e) /\ FileOf(e).readable /\ StructuredThrows(FileOf(e))) =>
            e.outcome = parse_with_fallback(FileOf(e), FileOf(e).language)

\* the languages extract_elements_with_regex has patterns for
HasRegexRules(language) == language \in {"python", "javascript"}

\* C3: a file whose language has neither a structured parser nor regex fallback
\* rules yields a FileAnalysis with parsing_status "unsupported" and zero
\* elements, and no exception is raised.
C3_UnsupportedIsReported ==
    \A e \in Entries :
        (~Structured(e) /\ ~HasRegexRules(FileOf(e).language) /\ FileOf(e).readable) =>
            /\ Succeeded(e)
            /\ ElementsOf(e) = <<>>
            /\ e.outcome.val.file_analysis.parsing_status = "unsupported"

\* C4: parse_file takes all elements and relationships of a file from exactly one
\* mode: from the regex extractor when the language has no initialized structured
\* parser (every such readable file is analysed by the regex fallback), and from
\* the structured extractor otherwise.
C4_OneModePerFile ==
    \A e \in Entries :
        LET f == FileOf(e) IN
        /\ (~Structured(e) /\ f.readable) =>
              /\ Succeeded(e)
              /\ ElementsOf(e) = extract_elements_with_regex(f.text, f.language, f.path)
              /\ RelationshipsOf(e) = extract_relationships_with_regex(f.text, f.language, f.path)
              /\ \A x \in Range(ElementsOf(e)) : x.end_line = 0
        /\ (Structured(e) /\ Succeeded(e)) =>
              /\ ElementsOf(e) = extract_code_elements(f.tree, 1, f.language, f.path).val
              /\ RelationshipsOf(e) = extract_relationships(f.tree, 1, f.language, f.path).val
              /\ \A x \in Range(ElementsOf(e)) : x.end_line >= 1

\* the same file analysed once by each mode, with different elements
C4_Witness ==
    \E a, b \in Entries :
        /\ a.file = b.file
        /\ Succeeded(a) /\ Structured(a) /\ Len(ElementsOf(a)) > 0
        /\ Succeeded(b) /\ ~Structured(b) /\ Len(ElementsOf(b)) > 0
        /\ ElementsOf(a) # ElementsOf(b)

\* C5: where tree-sitter is installed, for every set F of languages whose parser
\* fails to initialize, initialize_parsers returns status "success",
\* supported_languages is exactly the languages not in F, parsers_initialized is
\* their number, and language_parsers holds exactly those languages.
C5_FailuresAreIndependent ==
    (tree_sitter_available /\ init_result.called) =>
        /\ init_result.result.status = "success"
        /\ Range(init_result.result.supported_languages) = Languages \ init_result.failing
        /\ Len(init_result.result.supported_languages)
              = Cardinality(Languages \ init_result.failing)
        /\ init_result.result.parsers_initialized
              = Cardinality(Languages \ init_result.failing)
        /\ language_parsers = Languages \ init_result.failing

\* a language in the middle of the sequence failed and later ones were initialized
C5_Witness ==
    /\ tree_sitter_available /\ init_result.called
    /\ init_result.failing = {"javascript", "java"}
    /\ init_result.result.supported_languages = <<"python", "typescript", "cpp", "c">>

\* C6: parse_file never raises: a failure is returned as the result of that file
\* only (status "error", the file's path, a message).  A parse_file call, failing
\* or not, leaves the parser registry and the results of the earlier calls as
\* they were, and returns for a file what any other call with the same registry
\* entry returned for it.
C6_FailuresAreFileLocal ==
    [][calls' # calls =>
          LET new == calls'[Len(calls')] IN
          /\ Len(calls') = Len(calls) + 1
          /\ SubSeq(calls', 1, Len(calls)) = calls
          /\ language_parsers' = language_parsers
          /\ ~new.outcome.raised
          /\ new.outcome.val.file_path = Files[new.file].path
          /\ new.outcome.val.status \in {"success", "error"}
          /\ \A old \in Entries :
                (old.file = new.file /\ old.has_parser = new.has_parser) =>
                    old.outcome = new.outcome]_vars

\* a failing file between the registry's initialization and a file that succeeds
C6_Witness ==
    /\ Len(calls) = 2
    /\ Failed(calls[1]) /\ Succeeded(calls[2])
    /\ Structured(calls[2])
    /\ Len(ElementsOf(calls[2])) > 0

(***************************************************************************)
(* Properties of the scorers and extractors                                *)
(***************************************************************************)
Nodes == 1..Len(tree)
NodesOfType(types) == {k \in Nodes : tree[k].type \in types}

\* C7: calculate_python_complexity on a body subtree returns 1.0 + 1.0 per
\* if/for/while/try statement + 0.5 per elif clause + 1.0 per except clause
\* + 1.0 per and/or expression, over every node of the subtree at any depth; a
\* body holding exactly one if and one and-expression scores 3.0.  (Scores in
\* halves; every node of tree is in the subtree of its root.)
C7_PythonComplexityIsAdditive ==
    out.op = "calculate_python_complexity" =>
        /\ out.val = 2 + 2 * Cardinality(NodesOfType({"if_statement", "for_statement",
                                                      "while_statement", "try_statement"}))
                       + 1 * Cardinality(NodesOfType({"elif_clause"}))
                       + 2 * Cardinality(NodesOfType({"except_clause"}))
                       + 2 * Cardinality(NodesOfType({"and_expression", "or_expression"}))
        /\ ( /\ Cardinality(NodesOfType({"if_statement"})) = 1
             /\ Cardinality(NodesOfType({"and_expression"})) = 1
             /\ NodesOfType({"for_statement", "while_statement", "try_statement",
                             "elif_clause", "except_clause", "or_expression"}) = {}
           ) => out.val = 6

\* a body whose if statement holds the and-expression (a node two levels down)
C7_Witness ==
    /\ out.op = "calculate_python_complexity"
    /\ Len(tree) = 3
    /\ tree[1].type = "block"
    /\ tree[2].type = "if_statement" /\ tree[2].parent = 1
    /\ tree[3].type = "and_expression" /\ tree[3].parent = 2
    /\ out.val = 6

\* the node an element was made from (node k of an enumerated tree is on row k - 1)
NodeOfElement(x) == x.start_line
BodyNodes(n) ==
    LET body == child_by_field_name(tree, n, "body")
    IN  IF body = None THEN {} ELSE Range(Descent(tree, body))
ControlFlow ==
    {"if_statement", "for_statement", "while_statement", "try_statement", "switch_statement"}
Counted ==
    ControlFlow \cup {"elif_clause", "case_clause", "except_clause", "and_expression",
                      "or_expression", "binary_expression", "logical_expression"}
FunctionElements ==
    IF out.op = "extract_code_elements" /\ ~out.val.raised
    THEN {x \in Range(out.val.val) : x.type = "function"} ELSE {}

\* C8 as stated: every function element whose body contains no control-flow
\* construct (no if, for, while, try or switch statement) has complexity 1.0.
C8_NoControlFlowScoresOne ==
    \A x \in FunctionElements :
        (\A k \in BodyNodes(NodeOfElement(x)) : tree[k].type \notin ControlFlow) =>
            x.complexity = 2

\* C8 as amended: every function element whose body contains none of the
\* constructs the scorer counts (no if, for, while, try or switch statement, no
\* elif, case or except clause, no and/or, binary or logical expression) has
\* complexity 1.0.
C8_NoCountedConstructScoresOne ==
    \A x \in FunctionElements :
        (\A k \in BodyNodes(NodeOfElement(x)) : tree[k].type \notin Counted) =>
            x.complexity = 2

\* a function whose body holds a statement that is not counted
C8_Witness ==
    \E x \in FunctionElements :
        /\ Cardinality(BodyNodes(NodeOfElement(x))) >= 2
        /\ \A k \in BodyNodes(NodeOfElement(x)) : tree[k].type \notin Counted
        /\ x.complexity = 2

RECURSIVE SumOf(_)
SumOf(seq) == IF seq = <<>> THEN 0 ELSE Head(seq) + SumOf(Tail(seq))

\* the complexities of the function, class and method elements of a result
ScoredComplexities(elements) ==
    LET scored == SelectSeq(elements, LAMBDA x : x.type \in {"function", "class", "method"})
    IN  [k \in 1..Len(scored) |-> scored[k].complexity]

\* C9: the file-level complexity of a file equals the arithmetic mean of the
\* complexity scores of its function, class and method elements, and is 0.0 when
\* it has none, for every language and in both parsing modes.  (A file-level
\* score is <<total, divisor>>: total / divisor = sum / count is compared as
\* total * count = sum * divisor.)
C9_FileComplexityIsMean ==
    \A e \in Entries :
        Succeeded(e) =>
            LET score == e.outcome.val.file_analysis.complexity_score
                cs    == ScoredComplexities(ElementsOf(e))
            IN  IF cs = <<>> THEN score[1] = 0
                ELSE score[1] * Len(cs) = SumOf(cs) * score[2]

\* the nearest proper ancestor of node n that an element is made from
RECURSIVE Enclosing(_)
Enclosing(n) ==
    LET p == tree[n].parent IN
    IF p = None THEN None
    ELSE IF tree[p].type \in {"function_definition", "class_definition",
                              "function_declaration", "class_declaration"}
    THEN p
    ELSE Enclosing(p)

\* the id extract_code_elements gives the element made from node n
IdOfNode(n) ==
    LET elements == extract_code_elements(tree, 1, tlang, TreePath).val
    IN  (CHOOSE x \in Range(elements) : NodeOfElement(x) = n).id

\* C10: each relationship found inside a function or class records that nearest
\* enclosing element as its source; a calls relationship has a null source only
\* when the call is at module top level; a uses relationship is emitted for
\* every attribute access inside an element.
C10_SourceIsEnclosingElement ==
    ( /\ out.op = "extract_relationships" /\ ~out.val.raised
      /\ ~extract_code_elements(tree, 1, tlang, TreePath).raised ) =>
        /\ \A r \in Range(out.val.val) :
              r.type \in {"calls", "uses"} =>
                  /\ Enclosing(r.line) # None => r.source = IdOfNode(Enclosing(r.line))
                  /\ r.source = PyNone => Enclosing(r.line) = None
        /\ \A n \in NodesOfType({"attribute"}) :
              (tlang = "python" /\ Enclosing(n) # None
               /\ extract_attribute_name(tree, n).val # "") =>
                  \E r \in Range(out.val.val) : r.type = "uses" /\ r.line = n

(***************************************************************************)
(* Properties of the import example                                        *)
(***************************************************************************)
\* the <<target, confidence>> of the imports relationships of a result, in order
ImportsOf(relationships) ==
    LET imports == SelectSeq(relationships, LAMBDA r : r.type = "imports")
    IN  [k \in 1..Len(imports) |-> <<imports[k].target, imports[k].confidence>>]

\* C11: the Python file "import os / from sys import path" yields exactly two
\* relationships of type imports, each with confidence 0.9, with targets "os" and
\* "sys", whichever parsing mode handles the file.  (Confidence in tenths.)
C11_BothImportsInEitherMode ==
    \A e \in Entries :
        (FileOf(e).text = TextG /\ Returned(e)) =>
            /\ Succeeded(e)
            /\ ImportsOf(RelationshipsOf(e)) = <<<<"os", 9>>, <<"sys", 9>>>>

(***************************************************************************)
(* Properties of the repository analysis                                   *)
(***************************************************************************)
RequiredKeys == {"entities", "relationships", "metadata"}

\* C12: the result the analyzer hands to documentation generation always contains
\* the keys entities, relationships and metadata; documentation generation
\* rejects an input that lacks one of them by returning status "failed".
C12_HandsOverRequiredKeys ==
    /\ analysis.called => RequiredKeys \subseteq DOMAIN analysis.result
    /\ (documentation.called /\ ~(RequiredKeys \subseteq documentation.keys)) =>
           documentation.result.status = "failed"

\* the item is in a directory that process_directory skips
RECURSIVE InIgnoredDirectory(_, _)
InIgnoredDirectory(repo, k) ==
    LET p == repo.items[k].parent IN
    /\ p # 0
    /\ (repo.items[p].name \in IgnoredDirectories \/ InIgnoredDirectory(repo, p))

\* the source files of a repository
RepositoryFiles(repo) ==
    SelectSeq([k \in 1..Len(repo.items) |-> k],
              LAMBDA k : /\ repo.items[k].kind = "file"
                         /\ repo.items[k].suffix \in SourceSuffixes
                         /\ repo.items[k].file # 0
                         /\ ~InIgnoredDirectory(repo, k))

\* the FileAnalysis summaries parse_file makes of the source files of a repository
\* with the parsers the analysis initialized
Summaries(repo) ==
    LET files   == RepositoryFiles(repo)
        results == [k \in 1..Len(files) |->
                       parse_file(Files[repo.items[files[k]].file],
                                  Files[repo.items[files[k]].file].language,
                                  tree_sitter_available, language_parsers).val]
        good    == SelectSeq(results, LAMBDA r : r.status = "success")
    IN  [k \in 1..Len(good) |-> good[k].file_analysis]

\* the sum of scores <<total, divisor>>, as such a pair
RECURSIVE SumOfScores(_)
SumOfScores(scores) ==
    IF scores = <<>> THEN <<0, 1>>
    ELSE LET rest == SumOfScores(Tail(scores))
         IN  <<Head(scores)[1] * rest[2] + rest[1] * Head(scores)[2],
               Head(scores)[2] * rest[2]>>

\* C19: the repository-level metrics returned by the analysis (total files, total
\* elements, total relationships, average and maximum complexity) equal the
\* aggregates of the per-file FileAnalysis summaries of the files of the
\* repository.  (Scores are in halves; a mean or maximum v of scores
\* <<total, divisor>> is compared after multiplying out the divisors.)
C19_MetricsAreAggregates ==
    (analysis.called /\ "metrics" \in DOMAIN analysis.result) =>
        LET repo   == Repositories[analysis.repository]
            fas    == Summaries(repo)
            scores == [k \in 1..Len(fas) |-> fas[k].complexity_score]
            total  == SumOfScores(scores)
            m      == analysis.result.metrics
        IN  /\ m.total_files = Len(RepositoryFiles(repo))
            /\ m.total_elements = SumOf([k \in 1..Len(fas) |-> fas[k].elements_found])
            /\ m.total_relationships
                  = SumOf([k \in 1..Len(fas) |-> fas[k].relationships_found])
            /\ IF fas = <<>>
               THEN m.quality_metrics.avg_complexity = 0
                    /\ m.quality_metrics.max_complexity = 0
               ELSE /\ m.quality_metrics.avg_complexity * Len(fas) * total[2] = total[1]
                    /\ \A k \in 1..Len(fas) :
                          scores[k][1] <= m.quality_metrics.max_complexity * scores[k][2]
                    /\ \E k \in 1..Len(fas) :
                          scores[k][1] = m.quality_metrics.max_complexity * scores[k][2]

(***************************************************************************)
(* Properties of repeated extraction                                       *)
(***************************************************************************)
\* the fields of an element that C13 compares
Compared(x) ==
    [name |-> x.name, type |-> x.type, start_line |-> x.start_line,
     end_line |-> x.end_line, signature |-> x.signature, complexity |-> x.complexity]

StructuredElements ==
    IF out.op = "extract_code_elements" /\ ~out.val.raised THEN out.val.val ELSE <<>>
RegexElements ==
    IF out.op = "extract_elements_with_regex" THEN out.val ELSE <<>>

IdsOf(elements) == {elements[k].id : k \in 1..Len(elements)}
PairwiseDistinctIds(elements) ==
    \A i, j \in 1..Len(elements) : i # j => elements[i].id # elements[j].id

\* other files of the same analysis run
OtherPaths == {"lib/m.py", "0_m.py", "m.jsx"}

\* C14: within one analysis run no two elements carry the same id: in structured
\* mode and in regex mode the ids of the elements of one file are pairwise
\* distinct, and the elements of a file with another path share no id with them.
C14_IdsAreUnique ==
    /\ PairwiseDistinctIds(StructuredElements)
    /\ PairwiseDistinctIds(RegexElements)
    /\ \A p \in OtherPaths :
          /\ StructuredElements # <<>> =>
                IdsOf(StructuredElements)
                  \cap IdsOf(extract_code_elements(tree, 1, tlang, p).val) = {}
          /\ RegexElements # <<>> =>
                IdsOf(RegexElements)
                  \cap IdsOf(extract_elements_with_regex(source_code, tlang, p)) = {}

\* a tree with three elements, two of them functions
C14_Witness ==
    /\ Len(StructuredElements) = 3
    /\ StructuredElements[1].type = "function"
    /\ StructuredElements[2].type = "function"
    /\ PairwiseDistinctIds(StructuredElements)

\* the keyword that opens the match of an element of the type
KeywordOf(type) ==
    IF type = "class" THEN "class"
    ELSE IF tlang = "python" THEN "def" ELSE "function"

NewlinesBefore(p) == Cardinality({k \in 1..(p - 1) : source_code[k] = NL})

\* position p holds the keyword, and the name is the first word after it
OpensMatch(p, x) ==
    /\ source_code[p] = KeywordOf(x.type)
    /\ \E q \in (p + 2)..Len(source_code) :
          /\ source_code[q] = x.name
          /\ \A k \in (p + 1)..(q - 1) : source_code[k] \in Blank

\* def foo(a, b): / (indented) pass
ExampleFunction ==
    <<"def", " ", "foo", "(", "a", ",", " ", "b", ")", ":", NL,
      " ", " ", " ", " ", "pass">>

\* C15: every element produced by the regex fallback has end_line 0 and start_line
\* equal to 1 plus the number of newlines before its match; for the text
\* "def foo(a, b):" followed by an indented "pass" the result is exactly one
\* element, of type function, named foo, with start_line 1 and end_line 0.
C15_RegexLinesArePlaceholders ==
    out.op = "extract_elements_with_regex" =>
        /\ \A k \in 1..Len(out.val) :
              /\ out.val[k].end_line = 0
              /\ \E p \in 1..Len(source_code) :
                    /\ OpensMatch(p, out.val[k])
                    /\ out.val[k].start_line = 1 + NewlinesBefore(p)
        /\ (source_code = ExampleFunction /\ tlang = "python") =>
              /\ Len(out.val) = 1
              /\ out.val[1].type = "function"
              /\ out.val[1].name = "foo"
              /\ out.val[1].start_line = 1
              /\ out.val[1].end_line = 0

\* the regex extractor has run on the example
C15_Witness ==
    /\ out.op = "extract_elements_with_regex"
    /\ tlang = "python"
    /\ source_code = ExampleFunction
    /\ Len(out.val) = 1

\* the class elements of the last structured result whose class has no method
ClassesWithoutMethods ==
    {x \in Range(StructuredElements) :
        /\ x.type = "class"
        /\ \A k \in Range(Descent(tree, NodeOfElement(x))) :
              tree[k].type # "function_definition"}

\* the base classes of the class at node n, as written, in declaration order
BaseNames(n) ==
    LET bases == child_by_field_name(tree, n, "bases")
    IN  IF bases = None THEN <<>>
        ELSE [k \in 1..Len(children(tree, bases)) |-> Text(tree, children(tree, bases)[k])]

\* what the Python scorer counts over the nodes given, in halves
WeightOver(nodes) ==
    2 * Cardinality({k \in nodes : tree[k].type \in
                        {"if_statement", "for_statement", "while_statement",
                         "try_statement", "except_clause", "and_expression",
                         "or_expression"}})
    + Cardinality({k \in nodes : tree[k].type = "elif_clause"})

\* C16: a Python class with zero methods yields a class element whose
\* dependencies list equals the list of its base-class names in declaration
\* order, and whose complexity is the scorer's result over the class body.
C16_DependenciesAreBaseClasses ==
    tlang = "python" =>
        \A x \in ClassesWithoutMethods :
            /\ x.dependencies = BaseNames(NodeOfElement(x))
            /\ x.complexity = One + WeightOver(BodyNodes(NodeOfElement(x)))

\* C17: every element emitted by the extractor, of any type, in any language and
\* in either parsing mode, has a complexity score of at least 1.0; an element
\* without a body (and every element of the regex mode, which reads no body) has
\* exactly 1.0.
C17_ComplexityIsAtLeastOne ==
    /\ \A x \in Range(StructuredElements) :
          /\ x.complexity >= One
          /\ child_by_field_name(tree, NodeOfElement(x), "body") = None =>
                x.complexity = One
    /\ \A x \in Range(RegexElements) : x.complexity = One

\* a function that has children but no body
C17_Witness ==
    \E x \in Range(StructuredElements) :
        /\ x.type = "function"
        /\ children(tree, NodeOfElement(x)) # <<>>
        /\ child_by_field_name(tree, NodeOfElement(x), "body") = None
        /\ x.complexity = One

\* C18: when an expected named child is absent the extractor substitutes a
\* placeholder and does not raise: a function or class node without a name child
\* gets the name "anonymous", a variable whose target cannot be resolved gets
\* "unknown", and a call or docstring node without the expected first child
\* yields an empty value instead of an exception.
C18_MissingChildrenNeverRaise ==
    /\ out.op \in {"extract_code_elements", "extract_relationships"} => ~out.val.raised
    /\ \A x \in Range(StructuredElements) :
          /\ ( /\ x.type \in {"function", "class"}
               /\ child_by_field_name(tree, NodeOfElement(x), "name") = None ) =>
                 x.name = "anonymous"
          /\ ( /\ x.type = "variable"
               /\ child_by_field_name(tree, NodeOfElement(x), "targets") = None
               /\ child_by_field_name(tree, NodeOfElement(x), "declarations") = None ) =>
                 x.name = "unknown"

\* the words counted by the regex-mode scorer
CountedWords == {"if", "for", "while", "try", "and", "or"}

\* the positions of a text that hold one of the counted words as a whole word
WholeWordOccurrences(text) == {p \in 1..Len(text) : text[p] \in CountedWords}

\* C20: the regex-mode complexity of a source text is 1.0 plus the number of
\* whole-word occurrences of if, for, while, try, and, or anywhere in the text,
\* occurrences inside string literals and comments included.
C20_RegexComplexityCountsWords ==
    out.op = "calculate_complexity_with_regex" =>
        out.val = One + One * Cardinality(WholeWordOccurrences(source_code))

\* C20 happens: a text whose only counted words stand inside a string literal and
\* a comment (x = 'if a and b' / # for x or while) scores 1.0 + 5.
C20_Witness ==
    /\ out.op = "calculate_complexity_with_regex"
    /\ source_code = <<"x", " ", "=", " ", "'", "if", " ", "a", " ", "and", " ", "b", "'", NL,
                        "#", " ", "for", " ", "x", " ", "or", " ", "while">>
    /\ out.val = One + One * 5

\* the relationships of the last extraction, structured or regex
EmittedRelationships ==
    IF out.op = "extract_relationships" /\ ~out.val.raised THEN out.val.val
    ELSE IF out.op = "extract_relationships_with_regex" THEN out.val
    ELSE <<>>

\* the confidence of each relationship kind, in tenths
ConfidenceOfKind(type) ==
    IF type = "calls" THEN 8 ELSE IF type = "imports" THEN 9 ELSE 7

\* C21: every relationship the extractor emits, in structured or regex mode, has
\* the confidence fixed for its kind (calls 0.8, imports 0.9, uses 0.7), so
\* every confidence lies in [0,1] and two relationships of the same kind have
\* the same confidence.
C21_ConfidenceIsFixedPerKind ==
    /\ \A r \in Range(EmittedRelationships) :
          /\ r.type \in {"calls", "imports", "uses"}
          /\ r.confidence = ConfidenceOfKind(r.type)
          /\ r.confidence \in 0..10
    /\ \A r, q \in Range(EmittedRelationships) :
          r.type = q.type => r.confidence = q.confidence

\* C21 happens: a structured extraction emitted a calls relationship at 0.8
C21_Witness ==
    /\ out.op = "extract_relationships"
    /\ \E r \in Range(EmittedRelationships) : r.type = "calls" /\ r.confidence = 8

\* C22: for a JavaScript body subtree the complexity scorer adds 1.0 for each try
\* statement and 1.0 for each catch clause, as it does for Python try statements
\* and except clauses, in addition to 1.0 per if/for/while/switch, 0.5 per case
\* clause and 1.0 per binary or logical expression.  (Scores in halves; every
\* node of tree is in the subtree of its root.)
C22_JsCountsTryAndCatch ==
    out.op = "calculate_js_complexity" =>
        out.val = One + 2 * Cardinality(NodesOfType({"try_statement"}))
                      + 2 * Cardinality(NodesOfType({"catch_clause"}))
                      + 2 * Cardinality(NodesOfType({"if_statement", "for_statement",
                                                     "while_statement", "switch_statement"}))
                      + 1 * Cardinality(NodesOfType({"case_clause"}))
                      + 2 * Cardinality(NodesOfType({"binary_expression",
                                                     "logical_expression"}))

\* the three steps of an analysis, in the order of the code
AnalysisSteps == <<"initialize_parsers", "build_module_hierarchy",
                   "calculate_repository_metrics">>
StepNames(steps) == [k \in 1..Len(steps) |-> steps[k].step]
ReportsSuccess(result) == "status" \in DOMAIN result /\ result.status = "success"

\* what C23 says of every analysis, given the statuses with which the parser
\* initialization counts as having succeeded
AnalysisIsGated(initialized) ==
    analysis.called =>
        /\ DOMAIN analysis.result # {}
        /\ ReportsSuccess(analysis.result) \/ "error" \in DOMAIN analysis.result
        /\ ~Repositories[analysis.repository].exists =>
              /\ ~ReportsSuccess(analysis.result)
              /\ "analysis_complete" \notin DOMAIN analysis.result
              /\ "error" \in DOMAIN analysis.result
        /\ \E n \in 1..3 : StepNames(analysis.steps) = SubSeq(AnalysisSteps, 1, n)
        /\ ReportsSuccess(analysis.result) =>
              /\ StepNames(analysis.steps) = AnalysisSteps
              /\ analysis.steps[1].status \in initialized
              /\ analysis.steps[2].status = "success"
              /\ analysis.steps[3].status = "success"

\* C23 as stated: analyze_repository never raises; for a repository path that does
\* not exist it returns an error outcome for the whole run (no status "success",
\* no analysis_complete flag); it reaches status "success" only after parser
\* initialization, module-hierarchy construction and metrics calculation have
\* each succeeded, in that order.
C23_SuccessAfterThreeSuccesses == AnalysisIsGated({"success"})

\* C23 amended: the same, where the parser initialization counts as passed when
\* it did not report an error: status "success", or "warning" when tree-sitter
\* is not installed and every file will be parsed in regex mode.
C23_SuccessAfterNoStepFailed == AnalysisIsGated({"success", "warning"})

\* C23 happens: an analysis ran its three steps without tree-sitter installed
\* and reported success
C23_Witness ==
    /\ analysis.called
    /\ ReportsSuccess(analysis.result)
    /\ analysis.steps[1].status = "warning"
    /\ Len(analysis.steps) = 3

\* C23 happens on the error path: the path does not exist and the run stopped at
\* its second step
C23_MissingPathStops ==
    /\ analysis.called
    /\ ~Repositories[analysis.repository].exists
    /\ Len(analysis.steps) = 2
    /\ analysis.result.error = "Module hierarchy construction failed"

\* the parts a file stem or directory name of the repositories can have
Components == {"a", "d", "f", "g", "node_modules", "README"}

\* the number of dots in a dotted name
DotCount(name) ==
    LET comps == CHOOSE c \in UNION {[1..n -> Components] : n \in 1..3} : JoinDot(c) = name
    IN  Len(comps) - 1

\* the dotted name one level up
OneLevelUp(name) ==
    LET comps == CHOOSE c \in UNION {[1..n -> Components] : n \in 1..3} : JoinDot(c) = name
    IN  JoinDot(SubSeq(comps, 1, Len(comps) - 1))

\* the module hierarchy of the last analysis that built one
ModuleHierarchy ==
    IF analysis.called /\ Len(analysis.steps) >= 2
                       /\ analysis.steps[2].status = "success"
    THEN analysis.result.module_hierarchy.module_hierarchy
    ELSE <<>>

\* the directories of the analysed repository that are processed and hold a source
\* file, each with its dotted name and the dotted names of those files
RECURSIVE ModuleOfItem(_, _)
ModuleOfItem(repo, k) ==
    IF repo.items[k].parent = 0 THEN repo.items[k].comps
    ELSE ModuleOfItem(repo, repo.items[k].parent) \o repo.items[k].comps

SourceFilesIn(repo, d) ==
    {k \in 1..Len(repo.items) :
        /\ repo.items[k].parent = d
        /\ repo.items[k].kind = "file"
        /\ repo.items[k].suffix \in SourceSuffixes}

ModuleDirectories(repo) ==
    {d \in 1..Len(repo.items) :
        /\ repo.items[d].kind = "dir"
        /\ ~InIgnoredDirectory(repo, d)
        /\ repo.items[d].name \notin IgnoredDirectories
        /\ SourceFilesIn(repo, d) # {}}

\* C24: in the module hierarchy built by build_module_hierarchy every module
\* satisfies: level equals the number of dots in its dotted name; parent is absent
\* exactly when level is 0 and otherwise names the module one level up;
\* is_package is true exactly when the module has children; and every module
\* directory that contains source files is a package listing those files as its
\* children.
C24_HierarchyIsConsistent ==
    /\ \A m \in Range(ModuleHierarchy) :
          /\ m.level = DotCount(m.name)
          /\ (m.parent = PyNone) <=> (m.level = 0)
          /\ m.level > 0 => m.parent = OneLevelUp(m.name)
          /\ m.is_package <=> (m.children # <<>>)
    /\ analysis.called /\ ModuleHierarchy # <<>> =>
          LET repo == Repositories[analysis.repository] IN
          \A d \in ModuleDirectories(repo) :
              \E m \in Range(ModuleHierarchy) :
                  /\ m.name = JoinDot(ModuleOfItem(repo, d))
                  /\ m.is_package
                  /\ Range(m.children) =
                        {JoinDot(ModuleOfItem(repo, k)) : k \in SourceFilesIn(repo, d)}

\* the steps of a mapping, in the order of the code
MappingSteps == <<"validate_github_url", "clone_repository", "generate_file_tree",
                  "summarize_readme", "cleanup_repository">>

\* C30: in map_repository the steps run in the order validate URL, clone,
\* generate file tree, summarize README, clean up, and a failed step stops the run
\* with an error; whenever the clone step succeeded, cleanup_repository is called
\* on the clone path before map_repository returns, on the success path and on
\* every error path.
C30_CloneIsAlwaysCleanedUp ==
    mapping.called =>
        /\ \E n \in 1..5 : mapping.steps = SubSeq(MappingSteps, 1, n)
        /\ Len(mapping.steps) < 5 => "error" \in DOMAIN mapping.result
        /\ mapping.cloned => mapping.steps[Len(mapping.steps)] = "cleanup_repository"

(***************************************************************************)
(* Properties of the workflow manager and the generation tasks             *)
(***************************************************************************)
Active == workflow_manager.active_workflows
Completed == workflow_manager.completed_workflows
\* the ids that create_workflow has returned so far
Created == 1..Len(tasks)
\* a created workflow that is in neither dict has been deleted
Deleted == Created \ (DOMAIN Active \cup DOMAIN Completed)

\* C25: after any sequence of create_workflow, update_workflow and
\* delete_workflow calls no workflow id is in both active_workflows and
\* completed_workflows; every entry of active_workflows has status pending or
\* running and every entry of completed_workflows has status completed or failed.
C25_DictsAreDisjointAndTyped ==
    /\ DOMAIN Active \cap DOMAIN Completed = {}
    /\ \A id \in DOMAIN Active : Active[id].status \in {"pending", "running"}
    /\ \A id \in DOMAIN Completed : Completed[id].status \in {"completed", "failed"}

\* C25 happens: one workflow is running, another one has finished and a delete
\* request has been answered
C25_Witness ==
    /\ \E id \in DOMAIN Active : Active[id].status = "running"
    /\ \E id \in DOMAIN Completed : Completed[id].status = "completed"
    /\ response.op = "delete"

\* C26: every workflow created by start_analysis eventually reaches status
\* completed or failed unless it is deleted first, provided its background task
\* keeps running: no exception raised in the generation task leaves a workflow
\* pending or running forever.
C26_EveryWorkflowEnds ==
    \A id \in 1..MaxWorkflows :
        (id \in DOMAIN Active) ~>
            \/ id \in DOMAIN Completed /\ Completed[id].status \in {"completed", "failed"}
            \/ id \in Deleted

\* C26 happens: a generation task raised while its workflow was running, and the
\* workflow is failed
C26_Witness ==
    \E id \in DOMAIN Completed :
        /\ Completed[id].status = "failed"
        /\ Completed[id].error_message # PyNone
        /\ tasks[id].done

\* the last request was a status or download request for the workflow
AskedFor(id) ==
    /\ response.op \in {"status", "download"}
    /\ response.workflow_id = id

\* a created workflow that is in neither dict stays in neither, and status and
\* download requests for it answer not found (update_workflow acts only on an
\* id that is in active_workflows)
C27_DeletedStaysDeleted ==
    /\ [][\A id \in Deleted : id \in Deleted']_vars
    /\ [](\A id \in Deleted : AskedFor(id) => response.code = 404)

\* the last request was a delete request for a workflow that exists and whose
\* background task has not returned
DeleteOfRunning ==
    /\ response.op = "delete"
    /\ response.code # 404
    /\ ~tasks[response.workflow_id].done

C28_FinishedIsTerminal ==
    [][\A id \in DOMAIN Completed :
           /\ id \notin DOMAIN Active'
           /\ id \in DOMAIN Completed' => Completed'[id] = Completed[id]]_vars

\* C28 happens: the task raised after its "completed" update, so its except
\* handler called update_workflow for a workflow already in completed_workflows
C28_Witness ==
    \E id \in DOMAIN Completed :
        /\ Completed[id].status = "completed"
        /\ tasks[id].raised

\* the workflow with this id, in whichever dict it is
Workflow(id) == get_workflow_status(workflow_manager, id)
Workflows == DOMAIN Active \cup DOMAIN Completed

\* while a workflow is running its progress never decreases
ProgressNeverDecreases ==
    \A id \in DOMAIN Active :
        (id \in DOMAIN Active' /\ Active'[id].status = "running")
            => Active'[id].progress >= Active[id].progress

\* the fields of a workflow agree with its status
FieldsFollowStatus ==
    \A id \in Workflows :
        /\ Workflow(id).status = "completed" =>
               /\ Workflow(id).progress = 100
               /\ Workflow(id).result # NoResult
               /\ "output_directory" \in DOMAIN Workflow(id).result
               /\ Workflow(id).error_message = PyNone
        /\ Workflow(id).status = "failed" =>
               /\ Workflow(id).progress = 0
               /\ Workflow(id).result = NoResult
               /\ Workflow(id).error_message # PyNone

\* a download request is answered with the file only for a completed workflow
FileOnlyWhenCompleted ==
    \A id \in Created :
        (response' # response /\ response' = Answer("download", id, 200))
            => (id \in Workflows /\ Workflow(id).status = "completed")

\* C29: for every workflow driven by a generation task: while it is running its
\* progress never decreases; status completed implies progress 1.0, a result
\* that holds output_directory and a null error_message; status failed implies
\* progress 0.0, a null result and a non-null error_message; download is
\* answered with the file only for a workflow whose status is completed.
C29_ProgressAndFieldsFollowStatus ==
    /\ [][ProgressNeverDecreases /\ FileOnlyWhenCompleted]_vars
    /\ []FieldsFollowStatus

\* C29 happens: one workflow has run to completed and its file has been
\* downloaded, another one has failed after it had made progress
C29_Witness ==
    /\ \E id \in DOMAIN Completed :
           /\ Completed[id].status = "completed"
           /\ response = Answer("download", id, 200)
    /\ \E id \in DOMAIN Completed :
           /\ Completed[id].status = "failed"
           /\ tasks[id].raised

====
